---- MODULE Spec2Model ----
(***************************************************************************)
(* ROP chain builder of PSFree for PS4 8.03 (Chain803Base / Chain803).     *)
(*                                                                         *)
(* The fake stack is modelled slot by slot: every write of the builder is  *)
(* an 8-byte write at an offset that is a multiple of 8, and each slot     *)
(* holds the eight little-endian bytes that write64 stores there.          *)
(* Addresses are small naturals; a 64-bit value is a tuple of 8 bytes.     *)
(***************************************************************************)
EXTENDS Integers, Sequences, FiniteSets, TLC

\* ---------------------------------------------------------------- bounds
\* number of 8-byte slots of the fake stack
MaxSlots == 84
\* number of appending operations (push_*, start_branch, call, syscall)
\* explored in one behaviour
MaxOps == 3

\* ------------------------------------------------------------- constants
Null == -1

offset_libc_setjmp == \h25904
offset_libc_longjmp == \h29C38

jop1 == "mov rdi, qword ptr [rdi + 0x30]; mov rax, qword ptr [rdi]; jmp qword ptr [rax + 8]"
jop2 == "push rbp; mov rbp, rsp; mov rax, qword ptr [rdi]; call qword ptr [rax + 0x30]"
jop3 == "mov rdx, qword ptr [rax + 0x18]; mov rax, qword ptr [rdi]; call qword ptr [rax + 0x10]"
jop4 == "push rdx; jmp qword ptr [rax]"
jop5 == "pop rsp; ret"
ta_jop1 == "mov rdi, qword ptr [rsi + 0x18]; mov rax, qword ptr [rdi]; call qword ptr [rax + 0xb8]"
ta_jop2 == "pop rsi; jmp qword ptr [rax + 0x60]"
ta_jop3 == "mov rdi, qword ptr [rax + 8]; mov rax, qword ptr [rdi]; jmp qword ptr [rax + 0x68]"

rop_epilogue == "leave; ret"

webkit_gadget_offsets ==
    ("pop rax; ret" :> \h1ac7b) @@
    ("pop rbx; ret" :> \hc46d) @@
    ("pop rcx; ret" :> \h1ac5f) @@
    ("pop rdx; ret" :> \h282ea2) @@
    ("pop rbp; ret" :> \hb6) @@
    ("pop rsi; ret" :> \h50878) @@
    ("pop rdi; ret" :> \h91afa) @@
    ("pop rsp; ret" :> \h73c2b) @@
    ("pop r8; ret" :> \h3b4b3) @@
    ("pop r9; ret" :> \h10f372f) @@
    ("pop r10; ret" :> \hb1a721) @@
    ("pop r11; ret" :> \heaba69) @@
    ("pop r12; ret" :> \h4abe58) @@
    ("pop r13; ret" :> \h19a0d8b) @@
    ("pop r14; ret" :> \h50877) @@
    ("pop r15; ret" :> \h91af9) @@
    ("ret" :> \h32) @@
    ("leave; ret" :> \h1ba53) @@
    ("neg rax; and rax, rcx; ret" :> \h14c5ab4) @@
    ("adc esi, esi; ret" :> \hbcfa29) @@
    ("add rax, rdx; ret" :> \hd26d4c) @@
    ("push rsp; jmp qword ptr [rax]" :> \h1e3cb0a) @@
    ("add rcx, rsi; and rdx, rcx; or rax, rdx; ret" :> \h15a74c6) @@
    ("pop rdi; jmp qword ptr [rax + 0x1d]" :> \h21f4f09) @@
    ("mov qword ptr [rdi], rsi; ret" :> \h18f010) @@
    ("mov rax, qword ptr [rax]; ret" :> \h3734c) @@
    ("mov qword ptr [rdi], rax; ret" :> \h1433b) @@
    ("mov dword ptr [rdi], eax; ret" :> \h8e7f) @@
    ("mov rdx, rcx; ret" :> \hf2c94d) @@
    (jop1 :> \h174d3e0) @@
    (jop2 :> \h11c9df0) @@
    (jop3 :> \h481769) @@
    (jop4 :> \h21f10fd) @@
    (ta_jop1 :> \hc42d34) @@
    (ta_jop2 :> \h21f930e) @@
    (ta_jop3 :> \h1236532)

libc_gadget_offsets ==
    ("neg rax; ret" :> \hd3df3) @@
    ("mov rdx, rax; xor eax, eax; shl rdx, cl; ret" :> \hcef39) @@
    ("mov qword ptr [rsi], rcx; ret" :> \hcf8e2) @@
    ("setjmp" :> offset_libc_setjmp) @@
    ("longjmp" :> offset_libc_longjmp)

\* module bases found by get_bases(); the addresses themselves are
\* arbitrary, only their being distinct regions matters
libwebkit_base == \h10000000
libkernel_base == \h30000000
libc_base == \h20000000

\* init_gadget_map() that stores the offsets and forgets the base
init_gadget_map_no_base(gadget_map, offset_map, base_addr) ==
    [insn \in DOMAIN gadget_map \cup DOMAIN offset_map |->
        IF insn \in DOMAIN offset_map
        THEN offset_map[insn]
        ELSE gadget_map[insn]]

\* gadget_map.set(insn, base_addr.add(offset)) for every entry of offset_map;
\* a later table overrides an earlier entry of the same name
init_gadget_map(gadget_map, offset_map, base_addr) ==
    [insn \in DOMAIN gadget_map \cup DOMAIN offset_map |->
        IF insn \in DOMAIN offset_map
        THEN base_addr + offset_map[insn]
        ELSE gadget_map[insn]]

\* the gadget table after init(): webkit entries, then libc entries
gadgets ==
    init_gadget_map(
        init_gadget_map(<<>>, webkit_gadget_offsets, libwebkit_base),
        libc_gadget_offsets, libc_base)

\* the syscall table handed to init_class(): name -> system call number
syscall_array ==
    ("getuid" :> 24) @@
    ("socket" :> 97) @@
    ("kqueue" :> 362)

\* the trampoline gadget every push_syscall() ends with
syscall_gadget == libkernel_base + \h400

\* ------------------------------------------------------ 64-bit integers
Pow256(i) == IF i = 0 THEN 1 ELSE IF i = 1 THEN 256 ELSE IF i = 2 THEN 65536 ELSE 16777216

\* new Int(n) for a 32-bit signed n: sign-extended to 64 bits, stored as the
\* eight bytes write64 puts in memory, least significant byte first
Int64(n) ==
    [i \in 1..8 |->
        IF i <= 4 THEN (n \div Pow256(i - 1)) % 256
        ELSE IF n < 0 THEN 255 ELSE 0]

Zero64 == Int64(0)

\* rw.write64(buffer, offset, value): eight bytes at offset .. offset+7;
\* buffers are kept as 8-byte slots and every offset used is 8-aligned
write64(buf, offset, value) ==
    IF offset % 8 = 0 /\ (offset \div 8) \in DOMAIN buf
    THEN [buf EXCEPT ![offset \div 8] = value]
    ELSE buf

\* ------------------------------------------------------- memory layout
\* Addresses of the buffers the constructors allocate (get_view_vector of
\* each typed array) and of the WebCore textarea object.
StackBuf == \h40000000
FlagBuf == \h40010000
JmpTargetBuf == \h40020000
JmpBufBuf == \h40030000
RetvalBuf == \h40040000
VtableBuf == \h40050000
TextareaVtable == libwebkit_base + \h2800000

VARIABLES
    chain,      \* the Chain803 object: its fields and its fake stack
    target,     \* the hijacked slot: qword at offset 0 of the WebCore textarea
    pc,         \* where the single thread is: idle / hijacked / returned / crashed
    caller,     \* which driver operation is inside run(): run / call / syscall
    lastOp,     \* the driver operation that completed (or entered run()) last
    err,        \* "ok", or the error just thrown to the driver
    errOp,      \* the operation that threw it
    nops,       \* number of pushing or running operations performed
    open,       \* cursor positions at which the open branches started
    saves,      \* push_save()s not yet followed by a push_restore() or clean()
    ran,        \* run() has passed its guards since the last clean()
    oneshots,   \* call()s and syscall()s that have returned in a row
    gadget_map, \* the module's gadgets Map: instruction text -> address
    input,      \* what the driver function was started with
    ip,         \* the driver's next statement, when it follows a script
    mach,       \* the processor while it executes the chain, and the
                \* buffers outside the chain object that the chain touches
    peer        \* an earlier Chain instance that still exists, if any

vars == <<chain, target, pc, caller, lastOp, err, errOp, nops, open, saves,
          ran, oneshots, gadget_map, input, ip, mach, peer>>

\* what the free-running driver of Spec never touches
env == <<gadget_map, input, ip, mach, peer>>

StackSize == 8 * MaxSlots

\* ChainBase constructor, then Chain803Base and Chain803 constructors, for
\* the first instance
NewChain ==
    [stack |-> [i \in 0..(MaxSlots - 1) |-> Zero64],
     stack_addr |-> StackBuf,
     position |-> 0,
     stale |-> FALSE,
     _return_value |-> Zero64,
     retval_addr |-> RetvalBuf,
     is_branch_ctx |-> FALSE,
     branch_position |-> Null,
     delta_slot |-> Null,
     rsp_slot |-> Null,
     rsp_position |-> Null,
     flag |-> Zero64,
     flag_addr |-> FlagBuf,
     jmp_target_p |-> JmpTargetBuf,
     is_saved |-> FALSE,
     jmp_buf_p |-> JmpBufBuf,
     vtable_p |-> VtableBuf,
     old_vtable_p |-> TextareaVtable]

\* distance between the buffers of one instance and of the next
InstanceStride == \h100000

\* an allocation that hands every instance the same buffer
alloc_static(buf, n) == buf

\* new Uint8Array(...) in the constructor of instance n: a buffer of its own
alloc(buf, n) == buf + n * InstanceStride

\* the constructors for instance n: every buffer is allocated anew, the
\* fields start as in the first instance
NewInstance(n) ==
    [NewChain EXCEPT !.stack_addr = alloc(StackBuf, n),
                     !.retval_addr = alloc(RetvalBuf, n),
                     !.flag_addr = alloc(FlagBuf, n),
                     !.jmp_target_p = alloc(JmpTargetBuf, n),
                     !.jmp_buf_p = alloc(JmpBufBuf, n),
                     !.vtable_p = alloc(VtableBuf, n)]

\* no earlier instance exists
NoPeer == [stack_addr |-> Null]

\* memory is one: what instance c holds in a buffer is what any other
\* holder p of that buffer's address reads there
coherent(p, c) ==
    IF p.stack_addr = Null THEN p
    ELSE [p EXCEPT
            !.stack = IF p.stack_addr = c.stack_addr THEN c.stack ELSE @,
            !.flag = IF p.flag_addr = c.flag_addr THEN c.flag ELSE @,
            !._return_value =
                IF p.retval_addr = c.retval_addr
                THEN c._return_value ELSE @]

\* ------------------------------------------------------------ ChainBase
\* get_gadget() that hands out address 0 for an entry the table lacks
has_gadget_always(insn) == TRUE

\* this.gadgets.get(insn) on the Map handed to init_class(), failing when
\* the Map has no such entry
has_gadget(insn) == insn \in DOMAIN gadget_map
\* the address is read only once has_gadget() has passed
get_gadget(insn) == IF has_gadget(insn) THEN gadget_map[insn] ELSE 0

\* ChainBase.push_value: store the 8 bytes at the cursor, advance by 8
base_push_value(c, value) ==
    [c EXCEPT !.stack = write64(@, c.position, value),
              !.position = @ + 8]

\* push_value that forgets to count the slot while a branch is open
push_value_uncounted(c, value) == base_push_value(c, value)

\* push_value that counts the slot but never calls super.push_value
push_value_no_super(c, value) ==
    IF c.is_branch_ctx
    THEN [c EXCEPT !.branch_position = @ + 8]
    ELSE c

\* Chain803Base.push_value: the base push, counted while a branch is open
push_value(c, value) ==
    LET d == base_push_value(c, value)
    IN  IF d.is_branch_ctx
        THEN [d EXCEPT !.branch_position = @ + 8]
        ELSE d

push_gadget(c, insn) == push_value(c, Int64(get_gadget(insn)))

push_constant(c, value) == push_value(c, Int64(value))

\* one builder item: <<"g", insn>>, <<"c", constant>> or <<"v", address>>
push_item(c, item) ==
    CASE item[1] = "g" -> push_gadget(c, item[2])
      [] item[1] = "c" -> push_constant(c, item[2])
      [] item[1] = "v" -> push_value(c, Int64(item[2]))

RECURSIVE push_items(_, _)
push_items(c, items) ==
    IF Len(items) = 0 THEN c
    ELSE LET d == push_item(c, Head(items))
         IN  IF d.position > c.position
             THEN push_items(d, Tail(items))
             ELSE d

\* registers of the integer arguments, in order
arg_regs ==
    <<"pop rdi; ret", "pop rsi; ret", "pop rdx; ret",
      "pop rcx; ret", "pop r8; ret", "pop r9; ret">>

RECURSIVE push_args(_, _, _)
push_args(c, args, i) ==
    IF i > Len(args) THEN c
    ELSE push_args(push_value(push_gadget(c, arg_regs[i]), Int64(args[i])),
                   args, i + 1)

\* ChainBase.push_call(target, ...args), at most six arguments
push_call(c, func, args) == push_value(push_args(c, args, 1), Int64(func))

\* ChainBase.push_syscall(name, ...args)
push_syscall(c, name, args) ==
    LET c1 == push_gadget(c, "pop rax; ret")
        c2 == push_constant(c1, syscall_array[name])
    IN  push_call(c2, syscall_gadget, args)

\* a guard that throws only after the operation has pushed a slot
thrown_after_push(c) == base_push_value(c, Zero64)

\* the chain object a builder operation leaves when its guard throws: the
\* guard is the first statement, nothing has been touched yet
at_throw(c) == c

\* a run() that marks the chain before it checks it
run_failed_marked(c) == [c EXCEPT !.stale = TRUE]

\* the chain object a refused run() leaves: its guards only read
run_failed(c) == c

\* ChainBase.clean
base_clean(c) == [c EXCEPT !.position = 0, !.stale = FALSE]

\* ChainBase.check_stale / check_is_empty: TRUE when the guard throws
check_stale(c) == c.stale
check_is_empty(c) == c.position = 0

\* --------------------------------------------------------- Chain803Base
\* push_end() that ends the chain with a bare ret
push_end_bare_ret(c) == push_gadget(c, "ret")

\* push_end(): the epilogue gadget
push_end(c) == push_gadget(c, rop_epilogue)

\* TRUE when run() must refuse because a branch is still open
check_is_branching(c) == c.is_branch_ctx

\* _clean_branch_ctx() that leaves the byte count of the branch behind
clean_branch_ctx_keeps_count(c) ==
    [c EXCEPT !.is_branch_ctx = FALSE,
              !.delta_slot = Null,
              !.rsp_slot = Null,
              !.rsp_position = Null]

\* _clean_branch_ctx() that forgets the recorded rsp slot
clean_branch_ctx_keeps_rsp_slot(c) ==
    [c EXCEPT !.is_branch_ctx = FALSE,
              !.branch_position = Null,
              !.delta_slot = Null,
              !.rsp_position = Null]

_clean_branch_ctx(c) ==
    [c EXCEPT !.is_branch_ctx = FALSE,
              !.branch_position = Null,
              !.delta_slot = Null,
              !.rsp_slot = Null,
              !.rsp_position = Null]

\* clean() without its super.clean() call
clean_no_super(c) == [_clean_branch_ctx(c) EXCEPT !.is_saved = FALSE]

\* clean() that also zeroes the return-value slot
clean_zeroes_retval(c) ==
    [_clean_branch_ctx(base_clean(c)) EXCEPT !.is_saved = FALSE,
                                            !._return_value = Zero64]

\* clean() that keeps the records of an open branch
clean_keeps_branch_ctx(c) == [base_clean(c) EXCEPT !.is_saved = FALSE]

clean(c) == [_clean_branch_ctx(base_clean(c)) EXCEPT !.is_saved = FALSE]

\* start_branch() that leaves its rsp slot to end_branch()
start_branch_patch_deferred(c) == c

\* the last statement of start_branch(): the rsp slot gets the count of
\* bytes pushed since the stack pointer was captured
start_branch_patch(c) ==
    [c EXCEPT !.stack = write64(@, c.rsp_slot, Int64(c.rsp_position))]

\* start_branch() without its guard
start_branch_unguarded(c) == FALSE

\* guard of start_branch(): TRUE when it throws
start_branch_throws(c) == c.is_branch_ctx

\* start_branch() after its guard: the gadget block, slot by slot
start_branch(c) ==
    LET c1 == push_items(c, <<
                <<"g", "pop rcx; ret">>,
                <<"c", -1>>,
                <<"g", "neg rax; ret">>,
                <<"g", "pop rsi; ret">>,
                <<"c", 0>>,
                <<"g", "adc esi, esi; ret">>,
                <<"g", "pop rdi; ret">>,
                <<"v", c.flag_addr>>,
                <<"g", "mov qword ptr [rdi], rsi; ret">>,
                <<"g", "pop rax; ret">>,
                <<"v", c.flag_addr>>,
                <<"g", "mov rax, qword ptr [rax]; ret">>,
                <<"g", "pop rcx; ret">> >>)
        \* dummy value, overwritten later by end_branch()
        c2 == push_constant([c1 EXCEPT !.delta_slot = c1.position], 0)
        c3 == push_items(c2, <<
                <<"g", "neg rax; and rax, rcx; ret">>,
                <<"g", "pop rdi; ret">>,
                <<"v", c.flag_addr>>,
                <<"g", "mov qword ptr [rdi], rax; ret">>,
                <<"g", "pop rcx; ret">> >>)
        \* dummy value, overwritten at the end of start_branch()
        c4 == push_constant([c3 EXCEPT !.rsp_slot = c3.position], 0)
        c5 == push_gadget(c4, "pop rsi; ret")
        c6 == push_value(c5, Int64(c5.stack_addr + (c5.position + 8)))
        \* rsp collected here, start counting how much to perturb rsp
        c7 == [c6 EXCEPT !.branch_position = 0, !.is_branch_ctx = TRUE]
        c8 == push_items(c7, <<
                <<"g", "add rcx, rsi; and rdx, rcx; or rax, rdx; ret">>,
                <<"g", "mov rdx, rcx; ret">>,
                <<"g", "pop rax; ret">>,
                <<"v", c.flag_addr>>,
                <<"g", "mov rax, qword ptr [rax]; ret">>,
                <<"g", "add rax, rdx; ret">>,
                <<"g", "pop rdi; ret">>,
                <<"v", c.flag_addr>>,
                <<"g", "mov qword ptr [rdi], rax; ret">>,
                <<"g", "pop rcx; ret">>,
                <<"c", 0>>,
                <<"g", "mov rdx, rax; xor eax, eax; shl rdx, cl; ret">>,
                <<"g", "pop rax; ret">>,
                <<"v", c.jmp_target_p>>,
                <<"g", "pop rdi; jmp qword ptr [rax + 0x1d]">>,
                <<"c", 0>> >>)
        c9 == [c8 EXCEPT !.rsp_position = c8.branch_position]
    IN  start_branch_patch(c9)

\* guard of end_branch(): TRUE when it throws
end_branch_throws(c) == ~c.is_branch_ctx

\* end_branch() that leaves the dummy delta in place
end_branch_unpatched(c) == _clean_branch_ctx(c)

\* end_branch() that takes the whole count for the delta
end_branch_whole_count(c) ==
    _clean_branch_ctx(
        [c EXCEPT !.stack = write64(@, c.delta_slot,
                                    Int64(c.branch_position))])

\* end_branch() after its guard
end_branch(c) ==
    LET delta == c.branch_position - c.rsp_position
    IN  _clean_branch_ctx(
            [c EXCEPT !.stack = write64(@, c.delta_slot, Int64(delta))])

\* guard of push_save(): TRUE when it throws
push_save_throws(c) == c.is_saved

\* push_save() that does not mark the chain as saved
push_save_unmarked(c) == push_call(c, get_gadget("setjmp"), <<c.jmp_buf_p>>)

\* push_save() after its guard
push_save(c) ==
    [push_call(c, get_gadget("setjmp"), <<c.jmp_buf_p>>)
        EXCEPT !.is_saved = TRUE]

\* a resume target taken before the two padding slots are pushed
target_rsp_before_padding(c) == c.stack_addr + c.position - 16

\* push_restore(): the stack pointer the resume routine is to leave, taken
\* once the whole block and its padding are pushed
target_rsp(c) == c.stack_addr + c.position

\* a push_restore() that leaves the chain marked as saved
restore_done_still_saved(c) == c

\* the last statement of push_restore(): the save is used up
restore_done(c) == [c EXCEPT !.is_saved = FALSE]

\* guard of push_restore() that ignores is_force
push_restore_throws_unforced(c, is_force) == ~c.is_saved

\* guard of push_restore(is_force): TRUE when it throws
push_restore_throws(c, is_force) == ~c.is_saved /\ ~is_force

\* push_restore() after its guard
push_restore(c) ==
    LET c1 == push_gadget(c, "pop rax; ret")
        rsp_slot == c1.position
        c2 == push_items(c1, <<
                <<"c", 0>>,
                <<"g", "pop rdi; ret">>,
                <<"v", c.jmp_buf_p + 56>>,
                <<"g", "mov qword ptr [rdi], rax; ret">>,
                <<"g", "pop rax; ret">>,
                <<"v", get_gadget("ret")>>,
                <<"g", "pop rdi; ret">>,
                <<"v", c.jmp_buf_p + 128>>,
                <<"g", "mov qword ptr [rdi], rax; ret">> >>)
        c3 == push_call(c2, get_gadget("longjmp"), <<c.jmp_buf_p>>)
        c4 == push_constant(push_constant(c3, 0), 0)
    IN  restore_done(
            [c4 EXCEPT !.stack = write64(@, rsp_slot, Int64(target_rsp(c4)))])

\* push_get_retval() that appends nothing
push_get_retval_skipped(c) == c

\* push_get_retval(): store rax in the return-value slot
push_get_retval(c) ==
    push_items(c, <<
        <<"g", "pop rdi; ret">>,
        <<"v", c.retval_addr>>,
        <<"g", "mov qword ptr [rdi], rax; ret">> >>)

\* call() without its guard
call_throws_never(c) == FALSE

\* guard of call() and of syscall(): TRUE when it throws
call_throws(c) == c.position # 0
syscall_throws(c) == c.position # 0

\* what call() appends before it runs
call_build(c, func, args) ==
    push_end(push_get_retval(push_call(c, func, args)))

\* what syscall() appends before it runs
syscall_build(c, name, args) ==
    push_end(push_get_retval(push_syscall(c, name, args)))

\* call() and syscall() that return without cleaning
call_finish_skipped(c) == c

\* what call() and syscall() do once run() has returned
call_finish(c) == clean(c)

\* ------------------------------------------------------------- Chain803
\* run() without its check_is_branching() call
run_guard_no_branch_check(c) ==
    IF check_stale(c) THEN "Stale"
    ELSE IF check_is_empty(c) THEN "Empty"
    ELSE "ok"

\* the three guards at the head of run(): the error raised, or "ok"
run_guard(c) ==
    IF check_stale(c) THEN "Stale"
    ELSE IF check_is_empty(c) THEN "Empty"
    ELSE IF check_is_branching(c) THEN "Branching"
    ELSE "ok"

\* the chain object once run() has passed its guards
run_commit(c) == [c EXCEPT !.stale = TRUE]

\* the two values run() stores in the textarea's vtable pointer
hijack_vtable(c) == c.vtable_p

\* a run() that leaves the swapped vtable in place
restore_vtable_skipped(c) == c.vtable_p

restore_vtable(c) == c.old_vtable_p

\* ------------------------------------------------ the chain at run time
\* Once run() has swapped the vtable the processor executes the fake stack:
\* every gadget ends in ret (or in a jump into another gadget), which pops
\* the next slot. The machine is the registers the gadgets of the table
\* name, the carry flag, the buffers the chain addresses, and libc's
\* setjmp()/longjmp() as the comments of the source describe them.

\* buffers of the test drivers: state1, state2 and rop()'s own jmp_buf
State1Buf == \h40060000
State2Buf == \h40070000
RopJmpBuf == \h40080000

RegNames ==
    {"rax", "rbx", "rcx", "rdx", "rbp", "rsi", "rdi",
     "r8", "r9", "r10", "r11", "r12", "r13", "r14", "r15"}

\* the register each "pop <reg>; ret" gadget loads
pop_reg ==
    ("pop rax; ret" :> "rax") @@ ("pop rbx; ret" :> "rbx") @@
    ("pop rcx; ret" :> "rcx") @@ ("pop rdx; ret" :> "rdx") @@
    ("pop rbp; ret" :> "rbp") @@ ("pop rsi; ret" :> "rsi") @@
    ("pop rdi; ret" :> "rdi") @@ ("pop r8; ret" :> "r8") @@
    ("pop r9; ret" :> "r9") @@ ("pop r10; ret" :> "r10") @@
    ("pop r11; ret" :> "r11") @@ ("pop r12; ret" :> "r12") @@
    ("pop r13; ret" :> "r13") @@ ("pop r14; ret" :> "r14") @@
    ("pop r15; ret" :> "r15")

\* a jmp_buf: offset 0 is the restored rax, 0x38 the stack pointer, 0x80
\* the address execution resumes at; the other registers lie in between
ZeroJmpBuf == [r |-> [n \in RegNames |-> 0], rsp |-> 0, rip |-> 0]

NewMachine ==
    [status |-> "off",
     rip |-> 0,
     rsp |-> 0,
     r |-> [n \in RegNames |-> 0],
     cf |-> 0,
     steps |-> 0,
     writes |-> 0,
     resumes |-> 0,
     syscalls |-> 0,
     mem |-> (State1Buf :> 0) @@ (State2Buf :> 0),
     jmp_bufs |-> (JmpBufBuf :> ZeroJmpBuf) @@ (RopJmpBuf :> ZeroJmpBuf)]

\* the eight bytes of a slot read back as a signed number; the model keeps
\* every quantity within 32 bits, sign-extended
Value(bytes) ==
    LET lo == bytes[1] + 256 * bytes[2] + 65536 * bytes[3]
    IN  IF bytes[5] = 255
        THEN lo + (bytes[4] - 256) * 16777216
        ELSE lo + bytes[4] * 16777216

\* bitwise and / or of two's-complement integers
RECURSIVE And(_, _)
And(a, b) ==
    IF a = 0 \/ b = 0 THEN 0
    ELSE IF a = -1 THEN b
    ELSE IF b = -1 THEN a
    ELSE (a % 2) * (b % 2) + 2 * And(a \div 2, b \div 2)

Or(a, b) == a + b - And(a, b)

\* the gadget found at an address, "?" when the address is no gadget
gadget_at(a) ==
    IF a = syscall_gadget THEN "syscall"
    ELSE IF \E insn \in DOMAIN gadgets : gadgets[insn] = a
    THEN CHOOSE insn \in DOMAIN gadgets : gadgets[insn] = a
    ELSE "?"

\* w is the world the chain runs in: w.c the chain object with its buffers,
\* w.m the machine
in_stack(w, a) ==
    /\ a >= w.c.stack_addr
    /\ a < w.c.stack_addr + StackSize
    /\ (a - w.c.stack_addr) % 8 = 0

in_jmp_buf(w, a) ==
    \E b \in DOMAIN w.m.jmp_bufs : a \in {b, b + 56, b + 128}

readable(w, a) ==
    \/ in_stack(w, a)
    \/ a \in {w.c.flag_addr, w.c.retval_addr,
              w.c.jmp_target_p, w.c.jmp_target_p + 29}
    \/ a \in DOMAIN w.m.mem
    \/ in_jmp_buf(w, a)

writable(w, a) ==
    \/ in_stack(w, a)
    \/ a \in {w.c.flag_addr, w.c.retval_addr}
    \/ a \in DOMAIN w.m.mem
    \/ in_jmp_buf(w, a)

\* the jmp_buf an address lies in
jmp_buf_of(w, a) ==
    CHOOSE b \in DOMAIN w.m.jmp_bufs : a \in {b, b + 56, b + 128}

\* the qword at address a
load64(w, a) ==
    IF in_stack(w, a) THEN Value(w.c.stack[(a - w.c.stack_addr) \div 8])
    ELSE IF a = w.c.flag_addr THEN Value(w.c.flag)
    ELSE IF a = w.c.retval_addr THEN Value(w.c._return_value)
    ELSE IF a = w.c.jmp_target_p THEN get_gadget(jop5)
    ELSE IF a = w.c.jmp_target_p + 29 THEN get_gadget(jop4)
    ELSE IF a \in DOMAIN w.m.mem THEN w.m.mem[a]
    ELSE LET b == jmp_buf_of(w, a)
         IN  IF a = b THEN w.m.jmp_bufs[b].r["rax"]
             ELSE IF a = b + 56 THEN w.m.jmp_bufs[b].rsp
             ELSE w.m.jmp_bufs[b].rip

fault(w) == [w EXCEPT !.m.status = "fault"]

\* store the qword v at address a; a store outside the buffers kills
\* the process
store64(w, a, v) ==
    IF w.m.status # "running" THEN w
    ELSE IF ~writable(w, a) THEN fault(w)
    ELSE IF in_stack(w, a)
    THEN [w EXCEPT !.c.stack = write64(@, a - w.c.stack_addr, Int64(v))]
    ELSE IF a = w.c.flag_addr THEN [w EXCEPT !.c.flag = Int64(v)]
    ELSE IF a = w.c.retval_addr
    THEN [w EXCEPT !.c._return_value = Int64(v)]
    ELSE IF a \in DOMAIN w.m.mem
    THEN [w EXCEPT !.m.mem[a] = v, !.m.writes = @ + 1]
    ELSE LET b == jmp_buf_of(w, a)
         IN  IF a = b THEN [w EXCEPT !.m.jmp_bufs[b].r["rax"] = v]
             ELSE IF a = b + 56 THEN [w EXCEPT !.m.jmp_bufs[b].rsp = v]
             ELSE [w EXCEPT !.m.jmp_bufs[b].rip = v]

\* the ret every gadget ends with: pop the next gadget's address
Ret(w) ==
    IF w.m.status # "running" THEN w
    ELSE IF ~readable(w, w.m.rsp) THEN fault(w)
    ELSE [w EXCEPT !.m.rip = load64(w, w.m.rsp), !.m.rsp = @ + 8]

\* jmp qword ptr [a]
Jmp(w, a) ==
    IF w.m.status # "running" THEN w
    ELSE IF ~readable(w, a) THEN fault(w)
    ELSE [w EXCEPT !.m.rip = load64(w, a)]

\* pop <reg>
Pop(w, reg) ==
    IF w.m.status # "running" THEN w
    ELSE IF ~readable(w, w.m.rsp) THEN fault(w)
    ELSE [w EXCEPT !.m.r[reg] = load64(w, w.m.rsp), !.m.rsp = @ + 8]

\* push <value>
Push(w, v) ==
    IF w.m.status # "running" THEN w
    ELSE store64([w EXCEPT !.m.rsp = @ - 8], w.m.rsp - 8, v)

\* mov <reg>, qword ptr [a]
Load(w, reg, a) ==
    IF w.m.status # "running" THEN w
    ELSE IF ~readable(w, a) THEN fault(w)
    ELSE [w EXCEPT !.m.r[reg] = load64(w, a)]

\* a setjmp() that records rax after clearing it: the resumed pass would
\* see 0 again
setjmp_records_cleared_rax(w) ==
    LET buf == w.m.r["rdi"]
    IN  IF buf \notin DOMAIN w.m.jmp_bufs \/ ~readable(w, w.m.rsp)
        THEN fault(w)
        ELSE Ret([w EXCEPT
                    !.m.jmp_bufs[buf] = [r |-> [w.m.r EXCEPT !["rax"] = 0],
                                         rsp |-> w.m.rsp + 8,
                                         rip |-> load64(w, w.m.rsp)],
                    !.m.r["rax"] = 0,
                    !.m.r["rsi"] = input.junk])

\* int setjmp(jmp_buf): every register, the caller's stack pointer and the
\* return address go to the jmp_buf; it returns 0 and clobbers rsi
setjmp(w) ==
    LET buf == w.m.r["rdi"]
    IN  IF buf \notin DOMAIN w.m.jmp_bufs \/ ~readable(w, w.m.rsp)
        THEN fault(w)
        ELSE Ret([w EXCEPT
                    !.m.jmp_bufs[buf] = [r |-> w.m.r,
                                         rsp |-> w.m.rsp + 8,
                                         rip |-> load64(w, w.m.rsp)],
                    !.m.r["rax"] = 0,
                    !.m.r["rsi"] = input.junk])

\* noreturn longjmp(jmp_buf): the registers come back from the jmp_buf,
\* offset 0 being the restored rax; rdi and the return address are pushed
\* at the target rsp and popped again on the way out
longjmp(w) ==
    LET buf == w.m.r["rdi"]
    IN  IF buf \notin DOMAIN w.m.jmp_bufs THEN fault(w)
        ELSE LET jb == w.m.jmp_bufs[buf]
                 w1 == [w EXCEPT !.m.rsp = jb.rsp,
                                 !.m.resumes = @ + 1]
                 w2 == Push(Push(w1, jb.rip), jb.r["rdi"])
             IN  Ret(Pop([w2 EXCEPT !.m.r = jb.r], "rdi"))

\* the syscall trampoline of libkernel: the kernel serves the call whose
\* number is in rax and leaves its result there
syscall_insn(w) ==
    IF w.m.r["rax"] = syscall_array["getuid"]
    THEN Ret([w EXCEPT !.m.r["rax"] = input.uid,
                       !.m.syscalls = @ + 1])
    ELSE [w EXCEPT !.m.status = "unknown"]

\* the gadget at rip, executed up to and including its final transfer
exec(w) ==
    LET g == gadget_at(w.m.rip)
        r == w.m.r
    IN  CASE g \in DOMAIN pop_reg -> Ret(Pop(w, pop_reg[g]))
          [] g = "pop rsp; ret" ->
                IF ~readable(w, w.m.rsp) THEN fault(w)
                ELSE Ret([w EXCEPT !.m.rsp = load64(w, w.m.rsp)])
          [] g = "ret" -> Ret(w)
          [] g = rop_epilogue -> [w EXCEPT !.m.status = "returned"]
          [] g = "neg rax; ret" ->
                Ret([w EXCEPT !.m.cf = IF r["rax"] = 0 THEN 0 ELSE 1,
                              !.m.r["rax"] = -r["rax"]])
          [] g = "adc esi, esi; ret" ->
                IF r["rsi"] < 0 \/ r["rsi"] >= 1073741824
                THEN [w EXCEPT !.m.status = "unknown"]
                ELSE Ret([w EXCEPT !.m.r["rsi"] = 2 * r["rsi"] + w.m.cf,
                                   !.m.cf = 0])
          [] g = "mov qword ptr [rdi], rsi; ret" ->
                Ret(store64(w, r["rdi"], r["rsi"]))
          [] g = "mov qword ptr [rdi], rax; ret" ->
                Ret(store64(w, r["rdi"], r["rax"]))
          [] g = "mov qword ptr [rsi], rcx; ret" ->
                Ret(store64(w, r["rsi"], r["rcx"]))
          [] g = "mov rax, qword ptr [rax]; ret" ->
                Ret(Load(w, "rax", r["rax"]))
          [] g = "neg rax; and rax, rcx; ret" ->
                Ret([w EXCEPT !.m.r["rax"] = And(-r["rax"], r["rcx"])])
          [] g = "add rax, rdx; ret" ->
                Ret([w EXCEPT !.m.r["rax"] = r["rax"] + r["rdx"]])
          [] g = "add rcx, rsi; and rdx, rcx; or rax, rdx; ret" ->
                LET rcx == r["rcx"] + r["rsi"]
                    rdx == And(r["rdx"], rcx)
                IN  Ret([w EXCEPT !.m.r["rcx"] = rcx,
                                  !.m.r["rdx"] = rdx,
                                  !.m.r["rax"] = Or(r["rax"], rdx)])
          [] g = "mov rdx, rcx; ret" ->
                Ret([w EXCEPT !.m.r["rdx"] = r["rcx"]])
          [] g = "mov rdx, rax; xor eax, eax; shl rdx, cl; ret" ->
                IF r["rcx"] % 64 # 0
                THEN [w EXCEPT !.m.status = "unknown"]
                ELSE Ret([w EXCEPT !.m.r["rdx"] = r["rax"],
                                   !.m.r["rax"] = 0])
          [] g = "pop rdi; jmp qword ptr [rax + 0x1d]" ->
                Jmp(Pop(w, "rdi"), r["rax"] + 29)
          [] g = jop4 -> Jmp(Push(w, r["rdx"]), r["rax"])
          [] g = "setjmp" -> setjmp(w)
          [] g = "longjmp" -> longjmp(w)
          [] g = "syscall" -> syscall_insn(w)
          [] g = "?" -> fault(w)
          [] OTHER -> [w EXCEPT !.m.status = "unknown"]

\* one gadget executed
step(w) == [exec(w) EXCEPT !.m.steps = @ + 1]

\* the machine as the springboard leaves it: rsp was loaded with the fake
\* stack's address and the final ret of "pop rsp; ret" popped slot 0
pivot(c, m) ==
    [m EXCEPT !.status = "running",
              !.rip = Value(c.stack[0]),
              !.rsp = c.stack_addr + 8,
              !.r = [n \in RegNames |-> input.junk],
              !.cf = 0,
              !.steps = 0]

\* ----------------------------------------------------- driver's inputs
\* the free-running driver follows no script and observes no machine
NoInput ==
    [test |-> "none", script |-> << >>, v |-> 0, junk |-> 0, uid |-> 0]

GadgetInputs == {"pop rax; ret", "nop; ret"}
ConstantInputs == {1}
ValueInputs == {FlagBuf}
CallTargets == {get_gadget("setjmp")}
ArgInputs == {<<JmpBufBuf>>}
SyscallInputs == {"getuid"}

\* ------------------------------------------------------------- actions
Init ==
    /\ chain = NewChain
    /\ target = NewChain.old_vtable_p
    /\ pc = "idle"
    /\ caller = "none"
    /\ lastOp = "new"
    /\ err = "ok"
    /\ errOp = "none"
    /\ nops = 0
    /\ open = <<>>
    /\ saves = 0
    /\ ran = FALSE
    /\ oneshots = 0
    /\ gadget_map = gadgets
    /\ input = NoInput
    /\ ip = 0
    /\ mach = NewMachine
    /\ peer = NoPeer

\* the driver may invoke an operation: nothing is running, nothing is thrown
Ready == pc = "idle" /\ err = "ok"

\* the operation threw: the chain is left as c
ThrowWith(op, e, c) ==
    /\ errOp' = op
    /\ err' = e
    /\ chain' = c
    /\ UNCHANGED <<target, pc, caller, lastOp, open, saves, ran, oneshots>>
    /\ UNCHANGED env

\* the operation threw before changing anything
Throw(op, e) == ThrowWith(op, e, at_throw(chain)) /\ UNCHANGED nops

\* an operation ran to its end and left the chain as c
Done(op, c) ==
    /\ chain' = c
    /\ lastOp' = op
    /\ oneshots' = 0
    /\ UNCHANGED <<target, pc, caller, err, errOp, ran>>
    /\ UNCHANGED env

\* the driver may append: the exploration budget and the buffer allow it
CanPush(c) == nops < MaxOps /\ c.position <= StackSize

\* a pushing operation ran to its end and left the chain as c
Build(op, c) == CanPush(c) /\ Done(op, c) /\ nops' = nops + 1

\* run() entered on chain c by operation op: guards, then the vtable swap
Enter(op, c) ==
    /\ IF run_guard(c) # "ok"
       THEN ThrowWith(op, run_guard(c), c)
       ELSE /\ chain' = run_commit(c)
            /\ target' = hijack_vtable(c)
            /\ pc' = "hijacked"
            /\ caller' = op
            /\ lastOp' = op
            /\ ran' = TRUE
            /\ oneshots' = IF op = "run" THEN 0 ELSE oneshots
            /\ UNCHANGED <<err, errOp, open, saves>>
            /\ UNCHANGED env

PushGadget ==
    /\ Ready
    /\ \E insn \in GadgetInputs :
          IF ~has_gadget(insn)
          THEN Throw("push_gadget", "MissingGadget")
          ELSE Build("push_gadget", push_gadget(chain, insn))
               /\ UNCHANGED <<open, saves>>

PushConstant ==
    /\ Ready
    /\ \E v \in ConstantInputs :
          Build("push_constant", push_constant(chain, v))
    /\ UNCHANGED <<open, saves>>

PushValue ==
    /\ Ready
    /\ \E a \in ValueInputs :
          Build("push_value", push_value(chain, Int64(a)))
    /\ UNCHANGED <<open, saves>>

PushCall ==
    /\ Ready
    /\ \E f \in CallTargets, args \in ArgInputs :
          Build("push_call", push_call(chain, f, args))
    /\ UNCHANGED <<open, saves>>

PushSyscall ==
    /\ Ready
    /\ \E name \in SyscallInputs :
          Build("push_syscall", push_syscall(chain, name, <<>>))
    /\ UNCHANGED <<open, saves>>

PushGetRetval ==
    /\ Ready
    /\ Build("push_get_retval", push_get_retval(chain))
    /\ UNCHANGED <<open, saves>>

PushEnd ==
    /\ Ready
    /\ Build("push_end", push_end(chain))
    /\ UNCHANGED <<open, saves>>

StartBranch ==
    /\ Ready
    /\ IF start_branch_throws(chain)
       THEN Throw("start_branch", "InvalidBranchState")
       ELSE /\ Build("start_branch", start_branch(chain))
            /\ open' = Append(open, start_branch(chain).position)
            /\ UNCHANGED saves

EndBranch ==
    /\ Ready
    /\ IF end_branch_throws(chain)
       THEN Throw("end_branch", "InvalidBranchState")
       ELSE /\ Done("end_branch", end_branch(chain))
            /\ open' = SubSeq(open, 1, Len(open) - 1)
            /\ UNCHANGED <<nops, saves>>

PushSave ==
    /\ Ready
    /\ IF push_save_throws(chain)
       THEN Throw("push_save", "AlreadySaved")
       ELSE /\ Build("push_save", push_save(chain))
            /\ saves' = saves + 1
            /\ UNCHANGED open

PushRestoreWith(is_force) ==
    /\ Ready
    /\ IF push_restore_throws(chain, is_force)
       THEN Throw("push_restore", "NotSaved")
       ELSE /\ Build("push_restore", push_restore(chain))
            /\ saves' = 0
            /\ UNCHANGED open

PushRestore == \E is_force \in BOOLEAN : PushRestoreWith(is_force)

Clean ==
    /\ Ready
    /\ chain' = clean(chain)
    /\ lastOp' = "clean"
    /\ open' = <<>>
    /\ saves' = 0
    /\ ran' = FALSE
    /\ oneshots' = 0
    /\ UNCHANGED <<target, pc, caller, err, errOp, nops>>
    /\ UNCHANGED env

Run ==
    /\ Ready
    /\ IF run_guard(chain) # "ok"
       THEN ThrowWith("run", run_guard(chain), run_failed(chain))
            /\ UNCHANGED nops
       ELSE Enter("run", chain) /\ UNCHANGED nops

Call ==
    /\ Ready
    /\ \E f \in CallTargets, args \in ArgInputs :
          IF call_throws(chain)
          THEN Throw("call", "NotEmpty")
          ELSE LET c == call_build(chain, f, args)
               IN  CanPush(c) /\ Enter("call", c) /\ nops' = nops + 1

Syscall ==
    /\ Ready
    /\ \E name \in SyscallInputs :
          IF syscall_throws(chain)
          THEN Throw("syscall", "NotEmpty")
          ELSE LET c == syscall_build(chain, name, <<>>)
               IN  CanPush(c) /\ Enter("syscall", c)
                   /\ nops' = nops + 1

\* this.textarea.scrollLeft: the getter dispatches through the swapped
\* vtable into the chain; the chain either reaches its epilogue and the
\* getter returns, or the process dies
ChainExec ==
    /\ pc = "hijacked"
    /\ pc' \in {"returned", "crashed"}
    /\ UNCHANGED <<chain, target, caller, lastOp, err, errOp, nops,
                   open, saves, ran, oneshots>>
    /\ UNCHANGED env

\* run() after the getter returned: restore the vtable; call()/syscall()
\* then clean the chain
RunReturn ==
    /\ pc = "returned"
    /\ target' = restore_vtable(chain)
    /\ pc' = "idle"
    /\ caller' = "none"
    /\ IF caller \in {"call", "syscall"}
       THEN /\ chain' = call_finish(chain)
            /\ open' = <<>>
            /\ saves' = 0
            /\ ran' = FALSE
            /\ oneshots' = oneshots + 1
       ELSE UNCHANGED <<chain, open, saves, ran, oneshots>>
    /\ UNCHANGED <<lastOp, err, errOp, nops>>
    /\ UNCHANGED env

\* the driver catches the error and goes on with the same chain
Catch ==
    /\ err # "ok"
    /\ err' = "ok"
    /\ errOp' = "none"
    /\ UNCHANGED <<chain, target, pc, caller, lastOp, nops, open,
                   saves, ran, oneshots>>
    /\ UNCHANGED env

Next ==
    \/ PushGadget
    \/ PushConstant
    \/ PushValue
    \/ PushCall
    \/ PushSyscall
    \/ PushGetRetval
    \/ PushEnd
    \/ StartBranch
    \/ EndBranch
    \/ PushSave
    \/ PushRestore
    \/ Clean
    \/ Run
    \/ Call
    \/ Syscall
    \/ ChainExec
    \/ RunReturn
    \/ Catch

Spec == Init /\ [][Next]_vars

\* ------------------------------------------- the scripted test drivers
\* rop() and test_rop() are fixed sequences of builder calls on one chain.
\* A script is the sequence of its statements; SpecDriver runs one script,
\* statement by statement, and executes the chain gadget by gadget once
\* run() has hijacked the textarea.

\* number of push_constant()/push_value() calls of a generated push script
MaxPushes == 3

\* the sentinel the getuid test stores in the return-value slot
magic == \h4b435546

\* rw.write32(buffer, 0, value): the low four bytes, the rest stays
write32(bytes, value) ==
    [i \in 1..8 |-> IF i <= 4 THEN Int64(value)[i] ELSE bytes[i]]

\* rop(): the setjmp()/longjmp() test chain
setjmp_test ==
    << <<"push_gadget", "pop rax; ret">>,
       <<"push_constant", 1>>,
       <<"push_call", get_gadget("setjmp"), <<RopJmpBuf>> >>,
       <<"start_branch">>,
       <<"push_call", get_gadget("longjmp"), <<RopJmpBuf>> >>,
       <<"end_branch">>,
       <<"push_end">>,
       <<"run">> >>

\* rop(): "test if rax == 0" (v = 0) and "test if rax != 0" (v = 1), the
\* state buffer being state1 or state2
branch_test(v, state) ==
    << <<"push_gadget", "pop rsi; ret">>,
       <<"push_value", state>>,
       <<"push_save">>,
       <<"push_gadget", "pop rax; ret">>,
       <<"push_constant", v>>,
       <<"start_branch">>,
       <<"push_restore", FALSE>>,
       <<"push_gadget", "pop rcx; ret">>,
       <<"push_constant", 1>>,
       <<"push_gadget", "mov qword ptr [rsi], rcx; ret">>,
       <<"push_end">>,
       <<"end_branch">>,
       <<"push_restore", TRUE>>,
       <<"push_gadget", "pop rcx; ret">>,
       <<"push_constant", 2>>,
       <<"push_gadget", "mov qword ptr [rsi], rcx; ret">>,
       <<"push_end">>,
       <<"run">> >>

\* rop() and test_rop(): "test syscall getuid()"
getuid_test ==
    << <<"clean">>,
       <<"write32", magic>>,
       <<"syscall", "getuid">> >>

\* the whole of rop() after init()
rop ==
    setjmp_test
    \o << <<"clean">> >> \o branch_test(0, State1Buf)
    \o << <<"clean">> >> \o branch_test(1, State2Buf)
    \o getuid_test

\* the whole of test_rop() after init()
test_rop == << <<"push_end">>, <<"run">> >> \o getuid_test

\* the no-op chain on a cleaned chain
noop_test == << <<"clean">>, <<"push_end">>, <<"run">> >>

\* a driver that runs too early, catches the error, mends the build and
\* runs again
retry_tests ==
    { << <<"try_run">>, <<"push_end">>, <<"run">> >>,
      << <<"try_run">>, <<"push_constant", 1>>, <<"run">> >>,
      << <<"start_branch">>, <<"try_run">>, <<"end_branch">>, <<"run">> >>,
      << <<"start_branch">>, <<"try_run">>, <<"end_branch">>,
         <<"push_end">>, <<"run">> >>,
      << <<"try_run">>, <<"push_save">>, <<"start_branch">>, <<"try_run">>,
         <<"end_branch">>, <<"push_end">>, <<"run">> >> }

\* values handed to push_constant() and addresses handed to push_value()
PushInputs ==
    {<<"push_constant", n>> : n \in {0, 1, -1, magic}}
    \cup {<<"push_value", a>> : a \in {FlagBuf, State1Buf}}

\* what comes before the pushes of a push script: the cursor they start at
PushPrefixes == {<< >>, << <<"push_end">> >>, << <<"push_save">> >>}

push_tests ==
    {p \o s : p \in PushPrefixes,
              s \in UNION {[1..n -> PushInputs] : n \in 1..MaxPushes}}

\* a restore block at different cursors, after a save or forced without
\* one, followed by a store the resumed chain performs
RestoreModes ==
    { << <<"push_save">>, <<"push_restore", FALSE>> >>,
      << <<"push_save">>, <<"push_restore", TRUE>> >>,
      << <<"push_restore", TRUE>> >> }

restore_tests ==
    {[i \in 1..n |-> <<"push_gadget", "ret">>]
        \o m
        \o << <<"push_gadget", "pop rsi; ret">>,
              <<"push_value", State1Buf>>,
              <<"push_gadget", "pop rcx; ret">>,
              <<"push_constant", 2>>,
              <<"push_gadget", "mov qword ptr [rsi], rcx; ret">>,
              <<"push_end">>,
              <<"run">> >> : n \in 0..MaxPushes, m \in RestoreModes}

\* values in the branch-entry register, register contents at the pivot,
\* and user ids the kernel may report
BranchInputs == {0, 1, 2, -1}
JunkInputs == {0, 5}
UidInputs == {0, 1, 501}

DriverInputs ==
    {[test |-> "rop", script |-> rop, v |-> 0, junk |-> j, uid |-> u] :
        j \in JunkInputs, u \in UidInputs}
    \cup
    {[test |-> "test_rop", script |-> test_rop, v |-> 0, junk |-> j,
      uid |-> u] : j \in JunkInputs, u \in UidInputs}
    \cup
    {[test |-> "branch", script |-> branch_test(v, State1Buf), v |-> v,
      junk |-> j, uid |-> 0] : v \in BranchInputs, j \in JunkInputs}
    \cup
    {[test |-> "noop", script |-> noop_test, v |-> 0, junk |-> j, uid |-> 0] :
        j \in JunkInputs}
    \cup
    {[test |-> "retry", script |-> s, v |-> 0, junk |-> 0, uid |-> 0] :
        s \in retry_tests}
    \cup
    {[test |-> "push", script |-> s, v |-> 0, junk |-> 0, uid |-> 0] :
        s \in push_tests}
    \cup
    {[test |-> "restore", script |-> s, v |-> 0, junk |-> j, uid |-> 0] :
        s \in restore_tests, j \in JunkInputs}

\* the outcome of one builder statement: the chain it leaves and the error
\* it throws, "ok" when it returns
Ok(c) == [c |-> c, e |-> "ok"]
Fail(c, e) == [c |-> c, e |-> e]

\* one builder statement of a script applied to chain c
apply(c, stmt) ==
    CASE stmt[1] = "push_gadget" ->
            IF ~has_gadget(stmt[2]) THEN Fail(at_throw(c), "MissingGadget")
            ELSE Ok(push_gadget(c, stmt[2]))
      [] stmt[1] = "push_constant" -> Ok(push_constant(c, stmt[2]))
      [] stmt[1] = "push_value" -> Ok(push_value(c, Int64(stmt[2])))
      [] stmt[1] = "push_call" -> Ok(push_call(c, stmt[2], stmt[3]))
      [] stmt[1] = "push_end" -> Ok(push_end(c))
      [] stmt[1] = "start_branch" ->
            IF start_branch_throws(c)
            THEN Fail(at_throw(c), "InvalidBranchState")
            ELSE Ok(start_branch(c))
      [] stmt[1] = "end_branch" ->
            IF end_branch_throws(c)
            THEN Fail(at_throw(c), "InvalidBranchState")
            ELSE Ok(end_branch(c))
      [] stmt[1] = "push_save" ->
            IF push_save_throws(c) THEN Fail(at_throw(c), "AlreadySaved")
            ELSE Ok(push_save(c))
      [] stmt[1] = "push_restore" ->
            IF push_restore_throws(c, stmt[2])
            THEN Fail(at_throw(c), "NotSaved")
            ELSE Ok(push_restore(c))
      [] stmt[1] = "clean" -> Ok(clean(c))
      [] stmt[1] = "write32" ->
            Ok([c EXCEPT !._return_value = write32(@, stmt[2])])

BuilderStmts ==
    {"push_gadget", "push_constant", "push_value", "push_call", "push_end",
     "start_branch", "end_branch", "push_save", "push_restore", "clean",
     "write32"}

AppendingStmts == BuilderStmts \ {"end_branch", "clean", "write32"}

DriverInit ==
    /\ chain = NewChain
    /\ target = NewChain.old_vtable_p
    /\ pc = "idle"
    /\ caller = "none"
    /\ lastOp = "new"
    /\ err = "ok"
    /\ errOp = "none"
    /\ nops = 0
    /\ open = <<>>
    /\ saves = 0
    /\ ran = FALSE
    /\ oneshots = 0
    /\ gadget_map = gadgets
    /\ input \in DriverInputs
    /\ ip = 1
    /\ mach = NewMachine
    /\ peer = NoPeer

\* the statement the driver is at
Stmt == input.script[ip]

At(kinds) ==
    /\ pc = "idle"
    /\ err = "ok"
    /\ ip <= Len(input.script)
    /\ Stmt[1] \in kinds

\* a statement threw: the script stops there unless it catches
DThrow(e, c) ==
    /\ err' = e
    /\ errOp' = Stmt[1]
    /\ chain' = c
    /\ peer' = coherent(peer, c)
    /\ UNCHANGED <<target, pc, caller, lastOp, nops, open, saves, ran,
                   oneshots, gadget_map, input, ip, mach>>

\* a builder statement, clean() or the write of the sentinel
DStmt ==
    /\ At(BuilderStmts)
    /\ LET res == apply(chain, Stmt)
       IN  IF res.e # "ok" THEN DThrow(res.e, res.c)
           ELSE /\ chain' = res.c
                /\ lastOp' = Stmt[1]
                /\ ip' = ip + 1
                /\ nops' = IF Stmt[1] \in AppendingStmts
                           THEN nops + 1 ELSE nops
                /\ open' = CASE Stmt[1] = "start_branch" ->
                                    Append(open, res.c.position)
                             [] Stmt[1] = "end_branch" ->
                                    SubSeq(open, 1, Len(open) - 1)
                             [] Stmt[1] = "clean" -> <<>>
                             [] OTHER -> open
                /\ saves' = CASE Stmt[1] = "push_save" -> saves + 1
                              [] Stmt[1] \in {"push_restore", "clean"} -> 0
                              [] OTHER -> saves
                /\ ran' = IF Stmt[1] = "clean" THEN FALSE ELSE ran
                /\ oneshots' = IF Stmt[1] = "write32" THEN oneshots ELSE 0
                /\ peer' = coherent(peer, res.c)
                /\ UNCHANGED <<target, pc, caller, err, errOp, gadget_map,
                               input, mach>>

\* run() entered on chain c: the guards, then the vtable swap and the
\* processor on the fake stack
DEnter(op, c) ==
    IF run_guard(c) # "ok"
    THEN DThrow(run_guard(c), run_failed(c))
    ELSE /\ chain' = run_commit(c)
         /\ target' = hijack_vtable(c)
         /\ pc' = "hijacked"
         /\ caller' = op
         /\ lastOp' = op
         /\ ran' = TRUE
         /\ ip' = ip + 1
         /\ mach' = pivot(c, mach)
         /\ oneshots' = IF op = "run" THEN 0 ELSE oneshots
         /\ peer' = coherent(peer, c)
         /\ UNCHANGED <<err, errOp, open, saves, gadget_map, input>>

\* chain.run(), caught by the driver or not
DRun ==
    /\ At({"run", "try_run"})
    /\ DEnter("run", chain)
    /\ UNCHANGED nops

\* chain.syscall(name)
DSyscall ==
    /\ At({"syscall"})
    /\ IF syscall_throws(chain)
       THEN DThrow("NotEmpty", at_throw(chain)) /\ UNCHANGED nops
       ELSE /\ DEnter("syscall", syscall_build(chain, Stmt[2], <<>>))
            /\ nops' = nops + 1

\* the processor executes the gadget rip points at
DExec ==
    /\ pc = "hijacked"
    /\ mach.status = "running"
    /\ LET w == step([c |-> chain, m |-> mach])
       IN  /\ chain' = w.c
           /\ mach' = w.m
           /\ peer' = coherent(peer, w.c)
           /\ pc' = CASE w.m.status = "running" -> "hijacked"
                      [] w.m.status = "returned" -> "returned"
                      [] OTHER -> "crashed"
    /\ UNCHANGED <<target, caller, lastOp, err, errOp, nops, open, saves,
                   ran, oneshots, gadget_map, input, ip>>

\* try { chain.run() } catch: the driver goes on with its next statement
DCatch ==
    /\ pc = "idle"
    /\ err # "ok"
    /\ ip <= Len(input.script)
    /\ Stmt[1] = "try_run"
    /\ err' = "ok"
    /\ errOp' = "none"
    /\ ip' = ip + 1
    /\ UNCHANGED <<chain, target, pc, caller, lastOp, nops, open, saves,
                   ran, oneshots, gadget_map, input, mach, peer>>

DriverNext ==
    \/ DStmt
    \/ DRun
    \/ DSyscall
    \/ DExec
    \/ RunReturn
    \/ DCatch

SpecDriver == DriverInit /\ [][DriverNext]_vars

\* rop() alone, which catches nothing
RopInit == DriverInit /\ input.test = "rop"

RopNext ==
    \/ DStmt
    \/ DRun
    \/ DSyscall
    \/ DExec
    \/ RunReturn

\* the processor does not stop in the middle of a chain: weak fairness of
\* DExec, its enabling condition being its guard (every gadget executed
\* changes mach.steps, so DExec never stutters)
ExecFair ==
    \/ []<>~(pc = "hijacked" /\ mach.status = "running")
    \/ []<><<DExec>>_vars

\* the processor keeps executing the chain it was pivoted to, and run()
\* returns once the epilogue has pivoted back
SpecRop == RopInit /\ [][RopNext]_vars /\ ExecFair /\ WF_vars(RunReturn)

\* ------------------------------------------------ module initialisation
\* init() of the 8.03 module and the head of rop() of the 8.50 module fill
\* the gadgets Map table by table, hand it to init_class() and construct
\* the chain; SpecInit follows them from an empty Map, for offset tables and
\* bases drawn from the sets below.

\* number of init_gadget_map() calls of one initialisation
MaxTables == 2

\* the offset tables of the two modules (the 8.50 module's is empty, its
\* entries being commented out), a table of the constructors' gadgets
\* alone, and a small one sharing identifiers with the others
offset_table(name) ==
    CASE name = "webkit_803" -> webkit_gadget_offsets
      [] name = "libc_803" -> libc_gadget_offsets
      [] name = "webkit_850" -> [insn \in {} |-> 0]
      [] name = "jops" ->
            [insn \in {jop1, jop2, jop3, jop4, jop5,
                       ta_jop1, ta_jop2, ta_jop3} |-> \h1000]
            @@ ("setjmp" :> \h10)
      [] name = "probe" -> ("ret" :> 0) @@ ("leave; ret" :> \h99) @@ (jop1 :> 8)

TableNames == {"webkit_803", "libc_803", "webkit_850", "jops", "probe"}

\* the tables the 8.50 module can be given: its own, and the small one
TableNames850 == {"webkit_850", "probe"}

BaseInputs == {libwebkit_base, libc_base}

\* the get_gadget() calls of the constructors, in order
ctor_gadgets(module) ==
    IF module = "Chain803"
    THEN <<jop4, jop5, ta_jop1, ta_jop2, ta_jop3, jop2, jop3, jop4, jop5>>
    ELSE <<jop2, jop3, jop4, jop5, jop1>>

InitInputs ==
    {[test |-> "init", module |-> "Chain803", tables |-> t] :
        t \in UNION {[1..n -> [table : TableNames, base : BaseInputs]] :
                        n \in 1..MaxTables}}
    \cup
    {[test |-> "init", module |-> "Chain850", tables |-> t] :
        t \in UNION {[1..n -> [table : TableNames850, base : BaseInputs]] :
                        n \in 1..MaxTables}}

InitInit ==
    /\ chain = NewChain
    /\ target = NewChain.old_vtable_p
    /\ pc = "init"
    /\ caller = "none"
    /\ lastOp = "none"
    /\ err = "ok"
    /\ errOp = "none"
    /\ nops = 0
    /\ open = <<>>
    /\ saves = 0
    /\ ran = FALSE
    /\ oneshots = 0
    /\ gadget_map = [insn \in {} |-> 0]
    /\ input \in InitInputs
    /\ ip = 1
    /\ mach = NewMachine
    /\ peer = NoPeer

\* init_gadget_map(gadgets, <table>, <base>)
InitGadgetMap ==
    /\ pc = "init"
    /\ err = "ok"
    /\ ip <= Len(input.tables)
    /\ gadget_map' = init_gadget_map(gadget_map,
                                     offset_table(input.tables[ip].table),
                                     input.tables[ip].base)
    /\ ip' = ip + 1
    /\ UNCHANGED <<chain, target, pc, caller, lastOp, err, errOp, nops, open,
                   saves, ran, oneshots, input, mach, peer>>

\* new Chain(): the constructors look their gadgets up; the first one the
\* Map lacks throws and no chain object comes to exist
Construct ==
    /\ pc = "init"
    /\ err = "ok"
    /\ ip > Len(input.tables)
    /\ LET g == ctor_gadgets(input.module)
       IN  IF \E i \in DOMAIN g : ~has_gadget(g[i])
           THEN /\ err' = "MissingGadget"
                /\ errOp' = "new"
                /\ UNCHANGED <<pc, lastOp>>
           ELSE /\ pc' = "idle"
                /\ lastOp' = "new"
                /\ UNCHANGED <<err, errOp>>
    /\ UNCHANGED <<chain, target, caller, nops, open, saves, ran, oneshots,
                   gadget_map, input, ip, mach, peer>>

\* chain.push_gadget('leave; ret') of the 8.50 module's rop()
PushEpilogue ==
    /\ Ready
    /\ IF ~has_gadget(rop_epilogue)
       THEN Throw("push_gadget", "MissingGadget")
       ELSE Build("push_gadget", push_gadget(chain, rop_epilogue))
            /\ UNCHANGED <<open, saves>>

InitNext ==
    \/ InitGadgetMap
    \/ Construct
    \/ PushGadget
    \/ PushEpilogue
    \/ Run
    \/ ChainExec
    \/ RunReturn

SpecInit == InitInit /\ [][InitNext]_vars

\* ----------------------------------------------- two instances at once
\* A driver builds and possibly runs one chain, constructs a second Chain
\* while the first still exists, and goes on with the second. SpecPair
\* follows such scripts; <<"new">> is the second new Chain().

\* what the driver does with the first instance
first_parts ==
    { branch_test(0, State1Buf),
      << <<"push_save">>, <<"start_branch">>, <<"push_constant", 7>> >>,
      << <<"write32", magic>>, <<"syscall", "getuid">>,
         <<"push_gadget", "pop rax; ret">> >> }

\* what the driver does with the second instance
second_parts ==
    { branch_test(1, State2Buf) \o << <<"clean">> >> \o getuid_test,
      << <<"try_run">>, <<"push_save">>, <<"start_branch">>, <<"try_run">>,
         <<"end_branch">>, <<"push_end">>, <<"run">>, <<"clean">>,
         <<"write32", magic>>, <<"syscall", "getuid">> >> }

PairInputs ==
    {[test |-> "pair", script |-> a \o << <<"new">> >> \o b, v |-> 0,
      junk |-> j, uid |-> u] :
        a \in first_parts, b \in second_parts,
        j \in JunkInputs, u \in UidInputs \ {0}}

PairInit ==
    /\ chain = NewChain
    /\ target = NewChain.old_vtable_p
    /\ pc = "idle"
    /\ caller = "none"
    /\ lastOp = "new"
    /\ err = "ok"
    /\ errOp = "none"
    /\ nops = 0
    /\ open = <<>>
    /\ saves = 0
    /\ ran = FALSE
    /\ oneshots = 0
    /\ gadget_map = gadgets
    /\ input \in PairInputs
    /\ ip = 1
    /\ mach = NewMachine
    /\ peer = NoPeer

\* new Chain() while the chain built so far stays alive: the constructors
\* allocate the new instance's buffers and set its fields
DNew ==
    /\ At({"new"})
    /\ LET c == NewInstance(1)
       IN  /\ peer' = chain
           /\ chain' = c
           /\ target' = c.old_vtable_p
           /\ mach' = [mach EXCEPT !.jmp_bufs =
                         [b \in DOMAIN @ \cup {c.jmp_buf_p} |->
                             IF b = c.jmp_buf_p THEN ZeroJmpBuf ELSE @[b]]]
    /\ lastOp' = "new"
    /\ open' = <<>>
    /\ saves' = 0
    /\ ran' = FALSE
    /\ oneshots' = 0
    /\ ip' = ip + 1
    /\ UNCHANGED <<pc, caller, err, errOp, nops, gadget_map, input>>

PairNext ==
    \/ DNew
    \/ DStmt
    \/ DRun
    \/ DSyscall
    \/ DExec
    \/ RunReturn
    \/ DCatch

SpecPair == PairInit /\ [][PairNext]_vars

\* =============================================================== claims
\* C1: when end_branch() is called after N slots were pushed since
\* start_branch() returned, it stores N*8 in the delta slot that
\* start_branch() recorded and changes no other byte of the fake stack.
C1_DeltaIsPushedBytes ==
    [][(Len(open) > 0 /\ EndBranch) =>
        LET N == (chain.position - open[Len(open)]) \div 8
        IN  /\ err' = "ok"
            /\ chain'.stack =
                 [chain.stack EXCEPT ![chain.delta_slot \div 8] = Int64(N * 8)]
            /\ chain.delta_slot = open[Len(open)] - 25 * 8]_vars

\* a branch opened at offset 0 and closed after two more slots
C1_Witness ==
    /\ lastOp = "end_branch"
    /\ chain.position = (38 + 2) * 8
    /\ chain.stack[13] = Int64(16)
    /\ ~chain.is_branch_ctx

\* C2: start_branch() fails while a branch is open, end_branch() fails
\* while none is open, and at no time is more than one branch open.
C2_NoNesting ==
    [][/\ (Len(open) > 0 /\ StartBranch) =>
            /\ err' = "InvalidBranchState" /\ errOp' = "start_branch"
            /\ chain' = chain
       /\ (Len(open) = 0 /\ EndBranch) =>
            /\ err' = "InvalidBranchState" /\ errOp' = "end_branch"
            /\ chain' = chain
       /\ Len(open') <= 1
       /\ chain'.is_branch_ctx <=> Len(open') = 1]_vars

\* a second start_branch() was refused inside an open branch
C2_Witness ==
    /\ err = "InvalidBranchState"
    /\ errOp = "start_branch"
    /\ Len(open) = 1
    /\ chain.is_branch_ctx

C4_FailedRunTouchesNothing ==
    [][((chain.position = 0 \/ Len(open) > 0 \/ ran) /\ Run) =>
        /\ err' \in {"Stale", "Empty", "Branching"}
        /\ target = chain.old_vtable_p
        /\ target' = target
        /\ pc' = "idle"]_vars

\* run() was refused inside an open branch
C4_Witness ==
    /\ err = "Branching"
    /\ errOp = "run"
    /\ Len(open) = 1
    /\ target = chain.old_vtable_p
    /\ pc = "idle"

\* C5: outside run() the textarea's vtable pointer is the one read at
\* construction; it is the fake vtable only from run()'s swap until run()
\* puts the original back, which it does before returning.
C5_HijackAndRestore ==
    /\ pc = "idle" => target = chain.old_vtable_p
    /\ pc # "idle" => target = chain.vtable_p
    /\ chain.old_vtable_p = TextareaVtable
    /\ chain.vtable_p # chain.old_vtable_p

\* a run() has returned and the original pointer is back
C5_Witness ==
    /\ pc = "idle"
    /\ err = "ok"
    /\ chain.stale
    /\ lastOp = "run"
    /\ target = TextareaVtable

\* C6: an unforced push_restore() on a chain that is not saved throws
\* NotSaved and appends nothing; push_restore(true) never throws, whatever
\* is_saved is, and appends its block.
C6_RestoreGuard ==
    [][/\ (saves = 0 /\ PushRestoreWith(FALSE)) =>
            /\ err' = "NotSaved" /\ errOp' = "push_restore"
            /\ chain' = chain
       /\ PushRestoreWith(TRUE) =>
            /\ err' = "ok" /\ lastOp' = "push_restore"
            /\ chain'.position = chain.position + 15 * 8]_vars

\* a forced restore was the chain's first operation, and an unforced one
\* after it was refused
C6_Witness ==
    /\ err = "NotSaved"
    /\ errOp = "push_restore"
    /\ lastOp = "push_restore"
    /\ nops = 1
    /\ chain.position = 15 * 8

\* C7: push_save() succeeds exactly when no earlier push_save() is still
\* unmatched by a push_restore() or a clean(), and throws AlreadySaved
\* otherwise; at most one save is ever unmatched.
C7_OneCheckpoint ==
    [][/\ PushSave =>
            IF saves = 0
            THEN /\ err' = "ok" /\ lastOp' = "push_save"
                 /\ chain'.position = chain.position + 3 * 8
            ELSE /\ err' = "AlreadySaved" /\ errOp' = "push_save"
                 /\ chain' = chain
       /\ saves' <= 1
       /\ chain'.is_saved <=> saves' = 1]_vars

\* save, restore and save again succeeded; one more save was refused
C7_Witness ==
    /\ err = "AlreadySaved"
    /\ errOp = "push_save"
    /\ lastOp = "push_save"
    /\ chain.position = (3 + 15 + 3) * 8

\* C8: call() and syscall() on a chain whose cursor is not 0 throw NotEmpty,
\* append nothing and do not run.
C8_NotEmpty ==
    [][/\ (chain.position # 0 /\ Call) =>
            /\ err' = "NotEmpty" /\ errOp' = "call"
            /\ chain' = chain /\ pc' = "idle"
            /\ target' = target
       /\ (chain.position # 0 /\ Syscall) =>
            /\ err' = "NotEmpty" /\ errOp' = "syscall"
            /\ chain' = chain /\ pc' = "idle"
            /\ target' = target]_vars

\* call() was refused on a chain holding one slot
C8_Witness ==
    /\ err = "NotEmpty"
    /\ errOp = "call"
    /\ chain.position = 8
    /\ pc = "idle"

\* the slots below the cursor, in order
Pushed(c) == [i \in 1..(c.position \div 8) |-> c.stack[i - 1]]

Empty(c) ==
    /\ c.position = 0
    /\ ~c.stale
    /\ ~c.is_branch_ctx
    /\ ~c.is_saved

\* C9: call() and syscall() enter the chain with exactly the call (or
\* syscall) block, the push_get_retval block and the epilogue on the fake
\* stack, in this order; they run it once and on return the chain is Empty,
\* so that a call() or syscall() right after one is accepted again.
C9_OneShot ==
    [][/\ (pc = "idle" /\ pc' = "hijacked" /\ caller' = "call") =>
            /\ target' = chain'.vtable_p
            /\ \E f \in CallTargets, args \in ArgInputs :
                 Pushed(chain') = Pushed(push_call(chain, f, args))
                                  \o Pushed(push_get_retval(chain))
                                  \o Pushed(push_end(chain))
       /\ (pc = "idle" /\ pc' = "hijacked" /\ caller' = "syscall") =>
            /\ target' = chain'.vtable_p
            /\ \E name \in SyscallInputs :
                 Pushed(chain') = Pushed(push_syscall(chain, name, <<>>))
                                  \o Pushed(push_get_retval(chain))
                                  \o Pushed(push_end(chain))
       /\ (pc = "returned" /\ pc' = "idle" /\ caller \in {"call", "syscall"}) =>
            /\ Empty(chain')
            /\ target' = chain.old_vtable_p
       /\ (oneshots > 0 /\ (Call \/ Syscall)) =>
            /\ err' = "ok"
            /\ pc' = "hijacked"]_vars

\* two one-shot operations in a row have both returned
C9_Witness ==
    /\ pc = "idle"
    /\ lastOp \in {"call", "syscall"}
    /\ oneshots = 2
    /\ Empty(chain)

\* C10: clean(), whatever the state of the chain, leaves it Empty with the
\* branch records cleared, and keeps the addresses of the fake stack and of
\* the flag, jump-target and checkpoint buffers.
C10_CleanResets ==
    [][(Clean \/ (pc = "returned" /\ pc' = "idle"
                  /\ caller \in {"call", "syscall"})) =>
        /\ Empty(chain')
        /\ chain'.branch_position = Null
        /\ chain'.delta_slot = Null
        /\ chain'.rsp_slot = Null
        /\ chain'.rsp_position = Null
        /\ chain'.stack_addr = chain.stack_addr
        /\ chain'.flag_addr = chain.flag_addr
        /\ chain'.jmp_target_p = chain.jmp_target_p
        /\ chain'.jmp_buf_p = chain.jmp_buf_p]_vars

\* a chain cleaned in the middle of a branch opened after a push_save()
C10_Witness ==
    /\ lastOp = "clean"
    /\ nops = 2
    /\ Empty(chain)
    /\ chain.stack[2] = Int64(get_gadget("setjmp"))
    /\ chain.stack[3 + 36] = Int64(get_gadget("pop rdi; jmp qword ptr [rax + 0x1d]"))
    /\ chain.stack[3 + 13] = Zero64
    /\ chain.stack_addr = StackBuf

C12_GuardFailureMutatesNothing ==
    [][(/\ err' \in {"InvalidBranchState", "AlreadySaved", "NotSaved",
                     "NotEmpty"}
        /\ err = "ok"
        /\ \/ StartBranch \/ EndBranch \/ PushSave \/ PushRestore
           \/ Call \/ Syscall) =>
        /\ errOp' \in {"start_branch", "end_branch", "push_save",
                       "push_restore", "call", "syscall"}
        /\ chain'.position = chain.position
        /\ chain'.stack = chain.stack
        /\ chain'.is_branch_ctx = chain.is_branch_ctx
        /\ chain'.branch_position = chain.branch_position
        /\ chain'.delta_slot = chain.delta_slot
        /\ chain'.rsp_slot = chain.rsp_slot
        /\ chain'.rsp_position = chain.rsp_position
        /\ chain'.is_saved = chain.is_saved]_vars

\* syscall() was refused on a saved chain with a branch open
C12_Witness ==
    /\ err = "NotEmpty"
    /\ errOp = "syscall"
    /\ chain.is_branch_ctx
    /\ chain.is_saved
    /\ chain.position = (3 + 38) * 8

\* C13: the chain built as set state pointer; push_save; load v into rax;
\* start_branch; push_restore; body writing 1; push_end; end_branch;
\* push_restore(true); body writing 2; push_end runs to its epilogue, with
\* v = 0 through the conditional body only, leaving state = 1, and with any
\* v # 0 past it, leaving state = 2; exactly one body write happens.
C13_BranchTakesOneArm ==
    input.test = "branch" =>
        /\ pc # "crashed"
        /\ mach.writes <= 1
        /\ (ran /\ pc \in {"returned", "idle"}) =>
              /\ mach.status = "returned"
              /\ mach.writes = 1
              /\ mach.mem[State1Buf] = IF input.v = 0 THEN 1 ELSE 2

\* the chain ran with rax = 0 and returned through the conditional body
C13_Witness ==
    /\ input.test = "branch"
    /\ input.v = 0
    /\ pc = "returned"
    /\ mach.mem[State1Buf] = 1
    /\ mach.writes = 1
    /\ mach.resumes = 1

\* the chain ran with rax = -1 and returned past the conditional body
C13_WitnessSkip ==
    /\ input.test = "branch"
    /\ input.v = -1
    /\ pc = "returned"
    /\ mach.mem[State1Buf] = 2
    /\ mach.resumes = 1

\* the statements push_constant() and push_value() of a script
IsPush(stmt) == stmt[1] \in {"push_constant", "push_value"}

\* how many statements of a push script come before its first push, and
\* the cursor they leave: push_end() is one slot, push_save() three
PrefixLen(script) == IF IsPush(script[1]) THEN 0 ELSE 1

StartCursor(script) ==
    IF IsPush(script[1]) THEN 0
    ELSE IF script[1][1] = "push_end" THEN 8
    ELSE 3 * 8

\* bytes is the little-endian two's-complement encoding of n in 8 bytes
IsLittleEndian(bytes, n) ==
    /\ DOMAIN bytes = 1..8
    /\ \A i \in 1..8 : bytes[i] \in 0..255
    /\ \A i \in 5..8 : bytes[i] = IF n < 0 THEN 255 ELSE 0
    /\ bytes[1] + 256 * bytes[2] + 65536 * bytes[3]
       + 16777216 * (IF n < 0 THEN bytes[4] - 256 ELSE bytes[4]) = n
    /\ (n < 0) <=> (bytes[4] >= 128)

\* C14: in a sequence of push_constant()/push_value() calls starting at
\* cursor p, the k-th call writes the little-endian 8-byte encoding of its
\* argument at offset p + 8*(k-1), advances the cursor by exactly 8 and
\* changes no other byte of the buffer.
C14_PushWritesLittleEndian ==
    [][(input.test = "push" /\ DStmt /\ IsPush(Stmt)) =>
        LET k == ip - PrefixLen(input.script)
            at == StartCursor(input.script) + 8 * (k - 1)
        IN  /\ err' = "ok"
            /\ chain.position = at
            /\ chain'.position = at + 8
            /\ IsLittleEndian(chain'.stack[at \div 8], Stmt[2])
            /\ \A j \in DOMAIN chain.stack :
                  j # at \div 8 => chain'.stack[j] = chain.stack[j]
            /\ DOMAIN chain'.stack = DOMAIN chain.stack]_vars

\* after push_save(), -1, the sentinel and an address were pushed in turn
C14_Witness ==
    /\ input.test = "push"
    /\ input.script[1][1] = "push_save"
    /\ ip = 5
    /\ chain.position = (3 + 3) * 8
    /\ chain.stack[3] = <<255, 255, 255, 255, 255, 255, 255, 255>>
    /\ chain.stack[4] = <<70, 85, 67, 75, 0, 0, 0, 0>>
    /\ chain.stack[5] = <<0, 0, 6, 64, 0, 0, 0, 0>>

\* the tables init_gadget_map() has been called with so far
Loaded == 1..(ip - 1)

\* C15: after init_gadget_map(gadget_map, offset_map, base) every
\* identifier of offset_map resolves to base + offset, for any base and any
\* table; with several tables loaded into one Map every identifier resolves
\* against the base of the table that configured it, and the Map holds
\* nothing else.
C15_ResolvesBasePlusOffset ==
    input.test = "init" =>
        /\ \A k \in Loaded :
              LET t == offset_table(input.tables[k].table)
                  b == input.tables[k].base
              IN  \A insn \in DOMAIN t :
                     \/ gadget_map[insn] = b + t[insn]
                     \/ \E j \in Loaded :
                           /\ j > k
                           /\ insn \in
                                DOMAIN offset_table(input.tables[j].table)
        /\ DOMAIN gadget_map =
              UNION {DOMAIN offset_table(input.tables[k].table) :
                        k \in Loaded}

\* init() of the 8.03 module has loaded its two tables: a webkit gadget and
\* setjmp resolve against their own bases
C15_Witness ==
    /\ input.test = "init"
    /\ ip = 3
    /\ input.tables[1] = [table |-> "webkit_803", base |-> libwebkit_base]
    /\ input.tables[2] = [table |-> "libc_803", base |-> libc_base]
    /\ gadget_map["pop rax; ret"] = libwebkit_base + \h1ac7b
    /\ gadget_map["setjmp"] = libc_base + offset_libc_setjmp
    /\ gadget_map = gadgets

\* every slot below the cursor holds an address the Map resolves
Resolved(c) ==
    \A i \in 0..(c.position \div 8 - 1) :
        \E insn \in DOMAIN gadget_map : c.stack[i] = Int64(gadget_map[insn])

\* a gadget the constructor of the module looks up is not in the Map
CtorGadgetMissing ==
    \E i \in DOMAIN ctor_gadgets(input.module) :
        ctor_gadgets(input.module)[i] \notin DOMAIN gadget_map

\* C16: looking up or pushing a gadget identifier the initialised Map lacks
\* fails with MissingGadget while the chain is built: the constructor
\* yields no chain, push_gadget() appends no slot, and no chain holding an
\* unresolved slot reaches the hijack. With the empty table of the 8.50
\* module the constructor fails and nothing is ever appended.
C16_MissingGadgetAtBuildTime ==
    [][input.test = "init" =>
        /\ (Construct /\ CtorGadgetMissing) =>
              /\ err' = "MissingGadget" /\ errOp' = "new"
              /\ pc' = "init"
        /\ (PushEpilogue /\ rop_epilogue \notin DOMAIN gadget_map) =>
              /\ err' = "MissingGadget" /\ errOp' = "push_gadget"
              /\ chain' = chain
        /\ PushGadget =>
              \/ /\ err' = "MissingGadget" /\ errOp' = "push_gadget"
                 /\ chain' = chain
              \/ /\ err' = "ok"
                 /\ chain'.position = chain.position + 8
        /\ Resolved(chain')
        /\ err' = "MissingGadget" => pc' \in {"init", "idle"}
        /\ pc' = "hijacked" => (err' = "ok" /\ chain'.position > 0)
        /\ (\A k \in DOMAIN input.tables :
                input.tables[k].table = "webkit_850") =>
              /\ pc' = "init"
              /\ chain'.position = 0]_vars

\* the 8.50 module loaded its empty table and new Chain() threw
C16_Witness ==
    /\ input.test = "init"
    /\ input.module = "Chain850"
    /\ input.tables = <<[table |-> "webkit_850", base |-> libwebkit_base]>>
    /\ gadget_map = [insn \in {} |-> 0]
    /\ err = "MissingGadget"
    /\ errOp = "new"
    /\ pc = "init"

\* a chain was constructed from a Map holding the constructor's gadgets but
\* not 'leave; ret', and pushing the epilogue threw
C16_WitnessPush ==
    /\ input.test = "init"
    /\ pc = "idle"
    /\ rop_epilogue \notin DOMAIN gadget_map
    /\ err = "MissingGadget"
    /\ errOp = "push_gadget"
    /\ chain.position = 0

\* the no-op chain (push_end() alone on a fresh or cleaned chain) has been
\* handed to run()
NoopRan ==
    /\ ran
    /\ \/ input.test = "noop" /\ ip = 4
       \/ input.test = "test_rop" /\ ip = 3

\* C17: on an otherwise-untouched chain, clean(), push_end(), run()
\* executes the epilogue gadget and nothing else: run() returns, and the
\* scratch flag buffer holds after run() what it held before.
C17_NoopRunsOnlyEpilogue ==
    NoopRan =>
        /\ pc # "crashed"
        /\ chain.flag = NewChain.flag
        /\ chain.position = 8
        /\ pc = "hijacked" =>
              /\ mach.steps = 0
              /\ gadget_at(mach.rip) = rop_epilogue
        /\ pc \in {"returned", "idle"} =>
              /\ mach.status = "returned"
              /\ mach.steps = 1
              /\ mach.writes = 0
              /\ mach.resumes = 0
              /\ mach.syscalls = 0
              /\ chain.stack = push_end(NewChain).stack

\* clean(); push_end(); run() has returned to the driver
C17_Witness ==
    /\ input.test = "noop"
    /\ ip = 4
    /\ pc = "idle"
    /\ err = "ok"
    /\ chain.stale
    /\ mach.status = "returned"
    /\ mach.steps = 1

\* Int.low(): the low 32 bits of a slot, as its four low bytes
Low(bytes) == <<bytes[1], bytes[2], bytes[3], bytes[4]>>

\* the script ends with the getuid test, and syscall('getuid') was entered
GetuidEntered ==
    /\ input.test \in {"rop", "test_rop"}
    /\ ip = Len(input.script) + 1

\* C18: after the sentinel 0x4b435546 is written to the return-value slot
\* and syscall('getuid') is built and run, the slot holds the value the
\* system call left in rax, stored by the push_get_retval() block, and its
\* low 32 bits differ from the sentinel.
C18_RetvalReplacesSentinel ==
    GetuidEntered =>
        /\ pc # "crashed"
        /\ (pc = "hijacked" /\ mach.syscalls = 0) =>
              Low(chain._return_value) = Low(Int64(magic))
        /\ pc \in {"returned", "idle"} =>
              /\ mach.status = "returned"
              /\ mach.syscalls = 1
              /\ chain._return_value = Int64(input.uid)
              /\ Value(chain._return_value) = input.uid
              /\ Low(chain._return_value) # Low(Int64(magic))

\* test_rop() is through: getuid reported 501 and the slot holds it
C18_Witness ==
    /\ input.test = "test_rop"
    /\ input.uid = 501
    /\ ip = Len(input.script) + 1
    /\ pc = "idle"
    /\ err = "ok"
    /\ oneshots = 1
    /\ Value(chain._return_value) = 501

\* a step that ends the build: clean(), also as the last statement of
\* call() and syscall()
EndsBuild ==
    \/ lastOp' = "clean" /\ Clean
    \/ pc = "returned" /\ caller \in {"call", "syscall"} /\ RunReturn

\* C19: within one build the cursor never decreases and grows only by
\* pushes; a write that is not at or above the cursor the operation started
\* from (the delta-slot patch of end_branch()) goes to an offset strictly
\* below the cursor that start_branch() recorded in this same build, and the
\* rsp-slot patches of start_branch() and push_restore() go to slots the
\* same call pushed: nothing recorded before a clean() is patched after it.
C19_CursorMonotoneWithinBuild ==
    [][(chain' # chain /\ ~EndsBuild) =>
        /\ chain'.position >= chain.position
        /\ chain'.position > chain.position =>
              /\ nops' = nops + 1
              /\ (chain'.position - chain.position) % 8 = 0
        /\ \A i \in DOMAIN chain.stack :
              chain'.stack[i] # chain.stack[i] =>
                 /\ i * 8 < chain'.position
                 /\ \/ i * 8 >= chain.position
                    \/ /\ Len(open) = 1
                       /\ i * 8 = open[1] - 25 * 8
                       /\ i * 8 = chain.delta_slot
                       /\ lastOp' = "end_branch"]_vars

\* after a first build was cleaned, a branch was opened, one slot pushed
\* and the branch closed: the delta slot of this build was patched
C19_Witness ==
    /\ lastOp = "end_branch"
    /\ nops = 3
    /\ chain.position = (38 + 1) * 8
    /\ chain.stack[13] = Int64(8)
    /\ ~chain.stale
    /\ err = "ok"

\* a step that executes clean(): the statement of a script, or the last
\* statement of syscall() once run() has returned
CleanStep ==
    \/ pc = "idle" /\ ip <= Len(input.script) /\ Stmt[1] = "clean" /\ DStmt
    \/ pc = "returned" /\ caller = "syscall" /\ RunReturn

\* the chain's own store to the return-value slot: the gadget of the
\* push_get_retval() block with rdi at the slot
RetvalStore ==
    /\ pc = "hijacked"
    /\ gadget_at(mach.rip) = "mov qword ptr [rdi], rax; ret"
    /\ mach.r["rdi"] = chain.retval_addr
    /\ DExec

\* the driver's own write of the sentinel
SentinelWrite ==
    pc = "idle" /\ ip <= Len(input.script) /\ Stmt[1] = "write32" /\ DStmt

\* C20: clean() leaves the return-value slot as it is, so what the chain
\* run by syscall() stored there is still read through the accessor after
\* syscall() has returned; the slot changes only when a chain stores a
\* return value or the driver writes to it.
C20_CleanKeepsRetval ==
    [][/\ CleanStep => chain'._return_value = chain._return_value
       /\ chain'._return_value # chain._return_value =>
              (RetvalStore \/ SentinelWrite)
       /\ (pc = "returned" /\ caller = "syscall" /\ RunReturn) =>
              /\ chain'.position = 0
              /\ chain'._return_value = Int64(input.uid)]_vars

\* rop() is through: syscall('getuid') has returned and cleaned the chain,
\* and the slot still reads the user id 1
C20_Witness ==
    /\ input.test = "rop"
    /\ input.uid = 1
    /\ ip = Len(input.script) + 1
    /\ pc = "idle"
    /\ lastOp = "syscall"
    /\ chain.position = 0
    /\ ~chain.stale
    /\ chain._return_value = Int64(1)

\* C21: two Chain instances that exist at the same time never alias: a
\* builder operation, run() or clean() on the later one leaves the earlier
\* one's fake stack, cursor, flag buffer, checkpoint buffer, return slot
\* and is_branch_ctx / is_saved / stale flags as they were; their buffers
\* lie at different addresses and only the gadget table is shared.
C21_InstancesNeverAlias ==
    [][peer.stack_addr # Null =>
        /\ peer'.stack = peer.stack
        /\ peer'.position = peer.position
        /\ peer'.flag = peer.flag
        /\ peer'._return_value = peer._return_value
        /\ peer'.is_branch_ctx = peer.is_branch_ctx
        /\ peer'.is_saved = peer.is_saved
        /\ peer'.stale = peer.stale
        /\ peer' = peer
        /\ mach'.jmp_bufs[peer.jmp_buf_p] = mach.jmp_bufs[peer.jmp_buf_p]
        /\ chain.stack_addr # peer.stack_addr
        /\ chain.flag_addr # peer.flag_addr
        /\ chain.retval_addr # peer.retval_addr
        /\ chain.jmp_buf_p # peer.jmp_buf_p
        /\ gadget_map' = gadget_map]_vars

\* the first instance ran its branch test and is stale; the second ran
\* its own, was cleaned and ran getuid: each holds its own checkpoint, its
\* own stack and its own return value
C21_Witness ==
    /\ input.test = "pair"
    /\ ip = Len(input.script) + 1
    /\ pc = "idle"
    /\ peer.stack_addr # Null
    /\ peer.stale
    /\ peer.position = 83 * 8
    /\ peer._return_value = Zero64
    /\ chain.position = 0
    /\ chain._return_value = Int64(input.uid)
    /\ mach.jmp_bufs[peer.jmp_buf_p].rsp = peer.stack_addr + 60 * 8
    /\ mach.jmp_bufs[chain.jmp_buf_p].rsp = chain.stack_addr + 79 * 8
    /\ mach.writes = 2

\* the chain a script has built once its first k statements have returned
RECURSIVE built_after(_, _)
built_after(script, k) ==
    IF k = 0 THEN NewChain
    ELSE IF script[k][1] \in BuilderStmts
    THEN apply(built_after(script, k - 1), script[k]).c
    ELSE built_after(script, k - 1)

\* the first statement of a kind in a script
StmtIndex(script, kind) ==
    CHOOSE i \in 1..Len(script) :
        /\ script[i][1] = kind
        /\ \A j \in 1..(i - 1) : script[j][1] # kind

\* the cursor when start_branch() returned and when end_branch() was called
BranchStart ==
    built_after(input.script, StmtIndex(input.script, "start_branch")).position

BranchEnd ==
    built_after(input.script,
                StmtIndex(input.script, "end_branch") - 1).position

\* the processor is at the last gadget of the start_branch() block, which
\* loads rsp with the pointer the block computed
AtBranchPivot ==
    /\ input.test = "branch"
    /\ pc = "hijacked"
    /\ gadget_at(mach.rip) = jop5

\* C22: the stack pointer the start_branch() block computes at run time is
\* stack_addr + the cursor at end_branch() when the branch-entry register
\* is not zero (the first slot after the conditional region) and
\* stack_addr + the cursor when start_branch() returned when it is zero
\* (the first slot of the region); execution goes on with that slot.
C22_BranchPointer ==
    [][(AtBranchPivot /\ DExec) =>
        LET landing == IF input.v # 0 THEN BranchEnd ELSE BranchStart
        IN  /\ load64([c |-> chain, m |-> mach], mach.rsp)
                 = chain.stack_addr + landing
            /\ mach'.status = "running"
            /\ mach'.rsp = chain.stack_addr + landing + 8
            /\ mach'.rip = Value(chain.stack[landing \div 8])
            /\ BranchStart < BranchEnd]_vars

\* entered with rax = 2, the block has moved rsp past the conditional
\* region, onto the forced restore behind end_branch()
C22_Witness ==
    /\ input.test = "branch"
    /\ input.v = 2
    /\ pc = "hijacked"
    /\ mach.rsp = chain.stack_addr + BranchEnd + 8
    /\ BranchEnd = (5 + 2 + 38 + 19) * 8
    /\ BranchStart = (5 + 2 + 38) * 8
    /\ mach.rip = get_gadget("pop rax; ret")
    /\ mach.resumes = 0
    /\ mach.steps = 31

\* entered with rax = 0, the block has moved rsp onto the first slot of
\* the conditional region
C22_WitnessTake ==
    /\ input.test = "branch"
    /\ input.v = 0
    /\ pc = "hijacked"
    /\ mach.rsp = chain.stack_addr + BranchStart + 8
    /\ mach.resumes = 0
    /\ mach.steps = 31


\* the slot of the chain that holds the capture address start_branch()
\* pushes for the rsi load: two slots after the rsp slot
capture_slot(c) == c.rsp_slot + 16

\* C23: start_branch() fills its rsp slot before it returns, for every
\* cursor it starts from: the value in the rsp slot plus the capture address
\* pushed for the rsi load is stack_addr plus the cursor at the moment
\* start_branch() returns, and the rsp slot holds the byte count from the
\* capture point to that cursor, not the dummy 0.
C23_RspSlotFilledAtStart ==
    [][(lastOp' = "start_branch" /\ chain' # chain /\ StartBranch) =>
        LET rsp_value == Value(chain'.stack[chain'.rsp_slot \div 8])
            capture == Value(chain'.stack[capture_slot(chain') \div 8])
        IN  /\ chain'.is_branch_ctx
            /\ chain'.rsp_slot = chain.position + 19 * 8
            /\ chain'.position = chain.position + 38 * 8
            /\ capture = chain.stack_addr + capture_slot(chain') + 8
            /\ rsp_value + capture = chain'.stack_addr + chain'.position
            /\ rsp_value = chain'.rsp_position
            /\ rsp_value = 16 * 8]_vars

\* start_branch() returned after starting at cursor 16 (two pushes before
\* it): the rsp slot is slot 21 and already holds 128
C23_Witness ==
    /\ lastOp = "start_branch"
    /\ chain.is_branch_ctx
    /\ chain.position = (2 + 38) * 8
    /\ chain.rsp_slot = (2 + 19) * 8
    /\ Value(chain.stack[2 + 19]) = 128
    /\ Value(chain.stack[2 + 21]) = chain.stack_addr + (2 + 22) * 8

\* start_branch() returned after starting at cursor 0
C23_WitnessAtZero ==
    /\ lastOp = "start_branch"
    /\ chain.position = 38 * 8
    /\ Value(chain.stack[19]) + Value(chain.stack[21])
       = chain.stack_addr + 38 * 8


\* the statements of the script that are push_restore() calls
RestoreStmts == {k \in 1..Len(input.script) : input.script[k][1] = "push_restore"}

\* the processor is at the longjmp() of a push_restore() block
AtResume ==
    /\ pc = "hijacked"
    /\ gadget_at(mach.rip) = "longjmp"
    /\ mach.r["rdi"] = chain.jmp_buf_p

\* C24: push_restore(), forced or not and whatever the cursor it starts at,
\* pushes 15 slots ending in two padding slots and stores in its reserved
\* slot (the second of the block) stack_addr plus the cursor at its return;
\* when the resume routine of such a block runs, the processor comes out
\* with that stack pointer and executes next the first slot pushed after
\* the push_restore() call.
C24_RestoreResumesAfterBlock ==
    [][/\ (At({"push_restore"}) /\ ip' = ip + 1 /\ DStmt) =>
            /\ chain'.position = chain.position + 15 * 8
            /\ Value(chain'.stack[chain.position \div 8 + 1])
               = chain.stack_addr + chain'.position
            /\ chain'.stack[chain'.position \div 8 - 1] = Int64(0)
            /\ chain'.stack[chain'.position \div 8 - 2] = Int64(0)
            /\ \A i \in DOMAIN chain.stack :
                  i * 8 < chain.position =>
                     chain'.stack[i] = chain.stack[i]
       /\ (AtResume /\ DExec) =>
            \E k \in RestoreStmts :
               LET after == built_after(input.script, k).position
                   next == built_after(input.script, k + 1)
               IN  /\ mach.rsp + 16 = chain.stack_addr + after
                   /\ mach'.status = "running"
                   /\ mach'.rsp = chain.stack_addr + after
                   /\ mach'.rip = get_gadget("ret")
                   /\ next.position > after
                   /\ load64([c |-> chain', m |-> mach'], mach'.rsp)
                      = Value(next.stack[after \div 8])
                   /\ mach'.resumes = mach.resumes + 1]_vars

\* a forced restore without a save, pushed at cursor 16, has run: the
\* chain resumed behind the block, stored 2 and returned
C24_Witness ==
    /\ input.test = "restore"
    /\ Len(input.script) = 2 + 1 + 7
    /\ input.script[3] = <<"push_restore", TRUE>>
    /\ pc = "returned"
    /\ mach.resumes = 1
    /\ mach.mem[State1Buf] = 2
    /\ mach.jmp_bufs[chain.jmp_buf_p].rsp = chain.stack_addr + (2 + 15) * 8
    /\ Value(chain.stack[2 + 1]) = chain.stack_addr + (2 + 15) * 8

\* an unforced restore after a save, pushed at cursor 0 + 3 slots of the
\* save, has run
C24_WitnessUnforced ==
    /\ input.test = "restore"
    /\ input.script[1] = <<"push_save">>
    /\ input.script[2] = <<"push_restore", FALSE>>
    /\ pc = "returned"
    /\ mach.resumes = 1
    /\ mach.mem[State1Buf] = 2
    /\ mach.jmp_bufs[chain.jmp_buf_p].rsp = chain.stack_addr + (3 + 15) * 8


\* the four records of a branch context
BranchRecords(c) ==
    <<c.delta_slot, c.rsp_slot, c.branch_position, c.rsp_position>>

\* the records are non-null exactly when the chain is branching, and an
\* open branch has its delta slot below its rsp slot below the cursor
BranchCtxCoherent(c) ==
    /\ \A i \in 1..4 : (BranchRecords(c)[i] # Null) <=> c.is_branch_ctx
    /\ c.is_branch_ctx =>
          /\ 0 <= c.delta_slot
          /\ c.delta_slot < c.rsp_slot
          /\ c.rsp_slot < c.position
          /\ c.delta_slot % 8 = 0
          /\ c.rsp_slot % 8 = 0
          /\ 0 <= c.rsp_position
          /\ c.rsp_position <= c.branch_position

\* C25: between operations the delta slot, the rsp slot, branch_position
\* and rsp_position are non-null exactly when is_branch_ctx is true; they
\* are set by start_branch() and cleared by end_branch() and clean() (which
\* call() and syscall() end with), and by nothing else but the byte count
\* of the pushes inside the branch; while a branch is open,
\* delta_slot < rsp_slot < position.
C25_BranchRecordsFollowContext ==
    /\ []BranchCtxCoherent(chain)
    /\ [][/\ (chain.is_branch_ctx /\ ~chain'.is_branch_ctx) =>
                lastOp' \in {"end_branch", "clean"}
          /\ (~chain.is_branch_ctx /\ chain'.is_branch_ctx) =>
                lastOp' = "start_branch"
          /\ BranchRecords(chain') # BranchRecords(chain) =>
                \/ lastOp' \in {"start_branch", "end_branch", "clean"}
                \/ /\ chain.is_branch_ctx /\ chain'.is_branch_ctx
                   /\ chain'.position > chain.position
                   /\ chain'.branch_position - chain.branch_position
                      = chain'.position - chain.position
                   /\ chain'.delta_slot = chain.delta_slot
                   /\ chain'.rsp_slot = chain.rsp_slot
                   /\ chain'.rsp_position = chain.rsp_position]_vars

\* a branch opened at cursor 0 is open with one slot pushed inside it
C25_Witness ==
    /\ chain.is_branch_ctx
    /\ chain.delta_slot = 13 * 8
    /\ chain.rsp_slot = 19 * 8
    /\ chain.position = (38 + 1) * 8
    /\ chain.rsp_position = 16 * 8
    /\ chain.branch_position = (16 + 1) * 8

\* that branch has been closed: the four records are null again and the
\* chain is not empty
C25_WitnessClosed ==
    /\ lastOp = "end_branch"
    /\ ~chain.is_branch_ctx
    /\ BranchRecords(chain) = <<Null, Null, Null, Null>>
    /\ chain.position = (38 + 1) * 8


\* rop() is inside the run() of its setjmp()/longjmp() test chain
InSetjmpRun ==
    /\ input.test = "rop"
    /\ ip = Len(setjmp_test) + 1
    /\ pc \in {"hijacked", "returned"}

\* the run() of the setjmp()/longjmp() test chain has returned to rop()
SetjmpRunReturned ==
    /\ input.test = "rop"
    /\ ip = Len(setjmp_test) + 1
    /\ pc = "idle"
    /\ err = "ok"
    /\ lastOp = "run"
    /\ mach.status = "returned"
    /\ mach.resumes = 1
    /\ target = chain.old_vtable_p

\* C26: the setjmp()/longjmp() test chain of rop() terminates. The capture
\* returns 0 on the first pass, so the branch is taken and the conditional
\* resume runs; the resumed pass comes out of the capture with rax = 1, so
\* the branch is skipped. The resume executes exactly once, the chain
\* reaches its epilogue and run() returns.
C26_SetjmpTestTerminates ==
    /\ [][InSetjmpRun =>
            /\ mach'.resumes <= 1
            /\ pc' # "crashed"
            /\ (gadget_at(mach.rip) = "setjmp" /\ DExec) =>
                  /\ mach.resumes = 0
                  /\ mach.r["rax"] = 1
                  /\ mach'.r["rax"] = 0
            /\ (gadget_at(mach.rip) = "longjmp" /\ DExec) =>
                  /\ mach.resumes = 0
                  /\ mach'.r["rax"] = 1
                  /\ mach'.rsp = mach.jmp_bufs[RopJmpBuf].rsp
            /\ (gadget_at(mach.rip) = jop5 /\ DExec) =>
                  mach'.rsp = chain.stack_addr + 8
                     + (IF mach.resumes = 0 THEN BranchStart ELSE BranchEnd)
            /\ (gadget_at(mach.rip) = rop_epilogue /\ DExec) =>
                  /\ mach.resumes = 1
                  /\ pc' = "returned"]_vars
    /\ InSetjmpRun ~> SetjmpRunReturned

\* the resumed pass of the setjmp()/longjmp() test chain is past the
\* branch: the resume has run once and the epilogue is next
C26_Witness ==
    /\ InSetjmpRun
    /\ pc = "hijacked"
    /\ mach.resumes = 1
    /\ gadget_at(mach.rip) = rop_epilogue
    /\ mach.rsp = chain.stack_addr + BranchEnd + 8
    /\ BranchEnd = (5 + 38 + 3) * 8
    /\ mach.r["rax"] = chain.jmp_target_p

\* run() has returned from the setjmp()/longjmp() test chain after 60
\* gadgets
C26_WitnessReturned == SetjmpRunReturned /\ mach.steps = 60


\* the builder call that has just returned is a push_restore(), and the
\* driver is free to make its next call
JustRestored == lastOp = "push_restore" /\ pc = "idle" /\ err = "ok"

\* C27: every push_restore() that succeeds, forced or not, after a save or
\* without one, leaves is_saved false: right after it an unforced
\* push_restore() throws NotSaved and changes nothing, and a push_save()
\* succeeds and marks the chain saved again.
C27_RestoreClearsSaved ==
    [][/\ (lastOp' = "push_restore" /\ chain' # chain /\ PushRestore) =>
            /\ ~chain'.is_saved
            /\ chain'.position = chain.position + 15 * 8
       /\ JustRestored =>
            /\ ~chain.is_saved
            /\ PushRestoreWith(FALSE) =>
                  /\ err' = "NotSaved"
                  /\ errOp' = "push_restore"
                  /\ chain' = chain
            /\ (lastOp' = "push_save" /\ PushSave) =>
                  /\ err' = "ok"
                  /\ chain'.is_saved
                  /\ chain'.position = chain.position + 3 * 8]_vars

\* push_save(); push_restore(true); push_save() have all succeeded
C27_Witness ==
    /\ lastOp = "push_save"
    /\ err = "ok"
    /\ chain.is_saved
    /\ nops = 3
    /\ chain.position = (3 + 15 + 3) * 8
    /\ Value(chain.stack[3 + 1]) = chain.stack_addr + (3 + 15) * 8

\* after push_save(); push_restore() an unforced push_restore() has thrown
C27_WitnessNotSaved ==
    /\ lastOp = "push_restore"
    /\ err = "NotSaved"
    /\ errOp = "push_restore"
    /\ ~chain.is_saved
    /\ nops = 2
    /\ chain.position = (3 + 15) * 8

\* a forced push_restore() on a chain that was never saved has succeeded
C27_WitnessForced ==
    /\ lastOp = "push_restore"
    /\ err = "ok"
    /\ ~chain.is_saved
    /\ nops = 1
    /\ chain.position = 15 * 8

====
